---- MODULE Spec2Model ----
(***************************************************************************)
(* Syzygy tablebase probing of Cfish (src/src/tbprobe.c): the WDL and DTZ  *)
(* probes with their capture resolution, and the root move filters.        *)
(*                                                                         *)
(* A position is a record                                                  *)
(*   bb       piece code -> set of squares (byTypeBB & byColorBB)          *)
(*   materialKey  st->materialKey                                          *)
(*   stm      side to move                                                 *)
(*   checkers TRUE iff st->checkersBB is not empty                         *)
(*   rule50   st->rule50                                                   *)
(*   moves    the pseudo-legal moves the engine's generators produce, each *)
(*            with the position do_move() leads to                         *)
(* The engine (move generation, do_move/undo_move, legality) is outside    *)
(* tbprobe.c: a position carries its own game tree.                        *)
(***************************************************************************)
EXTENDS Integers, Sequences, FiniteSets, TLC

VARIABLES
  pos,        \* the position handed to the probing code (Pos *pos)
  stack,      \* the Stack array: the states st, st-1, ... as [key, pliesFromNull]
  fs,         \* the table files on disk: [wdl, dtz : sets of file names]
  tb,         \* the process-wide table state: TB_hash, ready flags, DTZ_table
  op,         \* the entry point called last ("none" before the first call)
  ret,        \* its return value
  psuccess,   \* *success on return
  rmoves,     \* the root move list rm[0..num-1]: [move, value]
  nmoves,     \* *num_moves
  pscore,     \* *score
  calls,      \* the number of calls made
  entry,      \* rm and *num_moves as the last root filter was given them
  thr,        \* the probing threads: where each is in its probe, and its locals
  mutex,      \* TB_mutex: the thread that holds it, 0 if none
  mem         \* the mapped tables: WDL payloads, DTZ entries allocated and freed

seqvars == <<pos, stack, op, ret, psuccess, rmoves, nmoves, pscore, calls, entry>>
concvars == <<thr, mutex, mem>>
vars == <<seqvars, fs, tb, concvars>>

(***************************************************************************)
(* Bounds of the model.                                                    *)
(***************************************************************************)
TBHASHBITS  == 3     \* width of the bucket index (tbcore.h: 10)
HSHMAX      == 3     \* slots per bucket (tbcore.h: 5)
DTZ_ENTRIES == 2     \* size of the DTZ cache (tbcore.h: 64)
MaxCaptures == 2     \* captures per position of the capture families
NumPlaced   == 5     \* placements of the pieces per material
MaxCalls    == 1     \* calls of the entry points per run
MaxQuiets   == 2     \* moves per root of the quiet-move family
NumThreads  == 2     \* threads probing at the same time
MaxProbes   == 2     \* probes per thread
MaxSingle == 4     \* probes of a thread that runs alone
MaxPlies  == 6     \* plies since the last null or irreversible move
NearDraw    == 98    \* the rule50 counter of a root close to the 50-move draw

(***************************************************************************)
(* Piece codes, colours, squares.                                          *)
(***************************************************************************)
WHITE == 0
BLACK == 1
PAWN  == 1
KING  == 6

PieceCodes == (1..6) \cup (9..14)

\* pc ^ 8 on a piece code
XorColor(pc, cmirror) == IF cmirror = 0 THEN pc
                         ELSE IF pc >= 8 THEN pc - 8 ELSE pc + 8

\* sq ^ 0x38 (vertical flip) and sq ^ 0x07 (horizontal flip) on 0..63
Xor38(sq) == (7 - (sq \div 8)) * 8 + (sq % 8)
Xor07(sq) == (sq \div 8) * 8 + (7 - (sq % 8))
XorMirror(sq, mirror) == IF mirror = 0 THEN sq ELSE Xor38(sq)

\* pieces_cp(c, pt)
pieces_cp(p, c, pt) == p.bb[8 * c + pt]

\* popcount(bb), pop_lsb(&bb)
popcount(bb) == Cardinality(bb)
lsb(bb)      == CHOOSE s \in bb : \A t \in bb : s <= t

Pow2(n) == 2 ^ n
RECURSIVE SumSeq(_)
SumSeq(s) == IF s = <<>> THEN 0 ELSE Head(s) + SumSeq(Tail(s))

(***************************************************************************)
(* Material keys.  mat_key[] is the engine's: each piece adds 1, a count   *)
(* digit of its own, and a hash part in the top TBHASHBITS bits; a king    *)
(* adds 1 only, so that KvK has key 2.  Keys are KeyWidth bits wide and    *)
(* sums wrap.                                                              *)
(***************************************************************************)
KeyLow   == Pow2(20)
KeyWidth == 20 + TBHASHBITS
KeyMod   == Pow2(KeyWidth)

mat_key(pc) ==
  IF pc = 6 \/ pc = 14 THEN 1
  ELSE LET j == IF pc < 8 THEN pc - 1 ELSE pc - 4     \* 0..4, 5..9
       IN  (1 + 8 * 3 ^ j + KeyLow * (2 * j + 1)) % KeyMod

\* calc_key(pos, mirror)
calc_key(p, mirror) ==
  LET color == IF mirror = 0 THEN WHITE ELSE BLACK
      own   == SumSeq([pt \in 1..6 |-> mat_key(pt) * popcount(pieces_cp(p, color, pt))])
      opp   == SumSeq([pt \in 1..6 |-> mat_key(pt + 8) * popcount(pieces_cp(p, 1 - color, pt))])
  IN  (own + opp) % KeyMod

\* calc_key_from_pcs(pcs, mirror): pcs is piece code -> count
calc_key_from_pcs(pcs, mirror) ==
  LET color == IF mirror = 0 THEN 0 ELSE 8
  IN  SumSeq([k \in 1..12 |->
               LET i == IF k <= 6 THEN k ELSE k + 2
               IN  mat_key(i) * pcs[XorColor(i, color)]]) % KeyMod

\* pos_material_key(): st->materialKey, which the engine keeps equal to calc_key
pos_material_key(p) == p.materialKey
pos_stm(p)          == p.stm
pos_checkers(p)     == p.checkers
pos_rule50_count(p) == p.rule50

\* prt_str(pos, str, mirror): the pieces of the first side, king first, then
\* 'v', then the other side's; as a pair of sequences of piece types
PieceStr(p, color) ==
  LET cnt(pt) == popcount(pieces_cp(p, color, pt))
      Rep(pt) == [i \in 1..cnt(pt) |-> pt]
  IN  Rep(6) \o Rep(5) \o Rep(4) \o Rep(3) \o Rep(2) \o Rep(1)

prt_str(p, mirror) ==
  LET color == IF mirror = 0 THEN WHITE ELSE BLACK
  IN  <<PieceStr(p, color), PieceStr(p, 1 - color)>>

(***************************************************************************)
(* The installed tables.  init_tb (tbcore.c) enumerates the table files    *)
(* and enters each material under its key and the key of its colour        *)
(* mirror.  A name is the pair prt_str writes: the piece types of the      *)
(* first side and of the second, king first.                               *)
(***************************************************************************)
TableNames ==
  << <<<<6, 5>>, <<6>>>>,              \* KQvK
     <<<<6, 4>>, <<6>>>>,              \* KRvK
     <<<<6, 1>>, <<6>>>>,              \* KPvK
     <<<<6, 5>>, <<6, 4>>>>,           \* KQvKR
     <<<<6, 1>>, <<6, 1>>>>,           \* KPvKP
     <<<<6, 5, 1>>, <<6>>>>,           \* KQPvK
     <<<<6, 5, 1>>, <<6, 4>>>> >>      \* KQPvKR

NumTables == Len(TableNames)

CountIn(seq, x) == Cardinality({i \in DOMAIN seq : seq[i] = x})

\* pcs[1..6] white pawns .. kings, pcs[9..14] black pawns .. kings
NamePcs(name) ==
  [pc \in 1..14 |-> IF pc \in 1..6 THEN CountIn(name[1], pc)
                    ELSE IF pc \in 9..14 THEN CountIn(name[2], pc - 8)
                    ELSE 0]

\* struct TBEntry, the fields the file name determines
TBEntryOf(ptr) ==
  LET name == TableNames[ptr]
      pcs  == NamePcs(name)
      key  == calc_key_from_pcs(pcs, 0)
      key2 == calc_key_from_pcs(pcs, 1)
  IN  [key       |-> key,
       key2      |-> key2,
       symmetric |-> (key = key2),
       has_pawns |-> (pcs[1] + pcs[9] > 0),
       num       |-> Len(name[1]) + Len(name[2]),
       name      |-> name]

TBEntries == [ptr \in 1..NumTables |-> TBEntryOf(ptr)]
TBEntry(ptr) == TBEntries[ptr]

\* entry->pieces[bside] (pawnless) or entry->file[f].pieces[bside]: the order
\* in which the table lists its pieces.  Pawns lead in a pawn table.
CodesOf(name, first) ==
  LET w == [i \in 1..Len(name[1]) |-> name[1][i]]
      b == [i \in 1..Len(name[2]) |-> name[2][i] + 8]
  IN  IF first = 0 THEN w \o b ELSE b \o w

EntryPiecesOf(ptr, bside) ==
  LET all   == CodesOf(TableNames[ptr], bside)
      IsP(c) == c = 1 \/ c = 9
      lead  == IF CountIn(TableNames[ptr][1], 1) > 0 THEN 1 ELSE 9
  IN  SelectSeq(all, LAMBDA c : c = lead)
        \o SelectSeq(all, LAMBDA c : IsP(c) /\ c # lead)
        \o SelectSeq(all, LAMBDA c : ~IsP(c))

PiecesTab == [ptr \in 1..NumTables |-> [bside \in 0..1 |-> EntryPiecesOf(ptr, bside)]]
EntryPieces(ptr, bside) == PiecesTab[ptr][bside]

\* add_to_hash: the first free slot of the key's bucket
Bucket(key) == key \div KeyLow            \* key >> (64 - TBHASHBITS)
NoSlot == [key |-> 0, ptr |-> 0]

add_to_hash(hash, ptr, key) ==
  LET b    == Bucket(key)
      free == {i \in 0..(HSHMAX - 1) : hash[b][i].ptr = 0}
  IN  IF free = {} THEN hash
      ELSE [hash EXCEPT ![b][lsb(free)] = [key |-> key, ptr |-> ptr]]

RECURSIVE init_tb(_, _)
init_tb(hash, ptr) ==
  IF ptr > NumTables THEN hash
  ELSE LET e  == TBEntry(ptr)
           h1 == add_to_hash(hash, ptr, e.key)
           h2 == IF e.key2 # e.key THEN add_to_hash(h1, ptr, e.key2) ELSE h1
       IN  init_tb(h2, ptr + 1)

EmptyHash == [b \in 0..(Pow2(TBHASHBITS) - 1) |-> [i \in 0..(HSHMAX - 1) |-> NoSlot]]

NoDtz == [key1 |-> 0, key2 |-> 0, entry |-> 0]

\* the table state after init_tb: nothing loaded.  lookups and failed count
\* the WDL table lookups made and the lookups that set *success = 0; dtzs
\* counts the searches of the DTZ cache; ply is the number of moves done and
\* not yet undone and top the greatest ply reached; nest is the number of calls
\* of TB_probe_dtz under way that were made from the loop for the other side
\* to move (551-569) and deep the greatest nest reached.
TB0 == [TB_hash   |-> init_tb(EmptyHash, 1),
        ready     |-> [ptr \in 1..NumTables |-> FALSE],
        DTZ_table |-> [i \in 0..(DTZ_ENTRIES - 1) |-> NoDtz],
        lookups   |-> 0,
        dtzs      |-> 0,
        failed    |-> 0,
        ply       |-> 0,
        top       |-> 0,
        nest      |-> 0,
        deep      |-> 0]

(***************************************************************************)
(* Indexing and decompression (tbcore.c).  encode_piece brings the first   *)
(* square into the fundamental domain by the board symmetries, sorts the   *)
(* squares of identical pieces and combines them; the index is modelled    *)
(* as the base-64 number of the canonical squares.  The bytes of a table   *)
(* are data: a fixed function of table, side and index.                    *)
(***************************************************************************)
FlipDiag(sq) == (sq % 8) * 8 + (sq \div 8)
OffDiag(sq)  == IF (sq \div 8) > (sq % 8) THEN 1
                ELSE IF (sq \div 8) < (sq % 8) THEN 0 - 1 ELSE 0

RECURSIVE SortAsc(_)
SortAsc(s) ==
  IF s = <<>> THEN <<>>
  ELSE LET m == CHOOSE i \in DOMAIN s : \A j \in DOMAIN s : s[i] <= s[j]
       IN  <<s[m]>> \o SortAsc([k \in 1..(Len(s) - 1) |-> IF k < m THEN s[k] ELSE s[k + 1]])

\* sort the squares within each group of identical pieces (pc: the piece list)
RECURSIVE SortGroups(_, _)
SortGroups(pc, p) ==
  IF Len(p) <= 1 THEN p
  ELSE IF pc[1] # pc[2] THEN <<p[1]>> \o SortGroups(Tail(pc), Tail(p))
  ELSE LET n == CHOOSE k \in 2..Len(p) :
                  /\ \A j \in 1..k : pc[j] = pc[1]
                  /\ (k = Len(p) \/ pc[k + 1] # pc[1])
       IN  SortAsc(SubSeq(p, 1, n)) \o SortGroups(SubSeq(pc, n + 1, Len(pc)), SubSeq(p, n + 1, Len(p)))

RECURSIVE Base64From(_, _)
Base64From(p, i) == IF i > Len(p) THEN 0 ELSE p[i] + 64 * Base64From(p, i + 1)
Base64(p) == Base64From(p, 1)

encode_piece(pc, p) ==
  LET p1 == IF (p[1] % 8) >= 4 THEN [i \in DOMAIN p |-> Xor07(p[i])] ELSE p
      p2 == IF (p1[1] \div 8) >= 4 THEN [i \in DOMAIN p |-> Xor38(p1[i])] ELSE p1
      od == {i \in DOMAIN p : OffDiag(p2[i]) # 0}
      p3 == IF od # {} /\ lsb(od) <= 3 /\ OffDiag(p2[lsb(od)]) > 0
            THEN [i \in DOMAIN p |-> FlipDiag(p2[i])] ELSE p2
  IN  Base64(SortGroups(pc, p3))

\* pawn_file: the file bucket 0..3 of the leading pawn
pawn_file(p) == IF (p[1] % 8) >= 4 THEN 7 - (p[1] % 8) ELSE p[1] % 8

encode_pawn(pc, p) ==
  LET p1 == IF (p[1] % 8) >= 4 THEN [i \in DOMAIN p |-> Xor07(p[i])] ELSE p
  IN  Base64(SortGroups(pc, p1))

Mix(idx) == idx + (idx \div 64) + (idx \div 4096) + (idx \div 262144) + (idx \div 16777216)

\* decompress_pairs on a WDL table: a byte 0..4
WdlByte(ptr, bside, f, idx) == (Mix(idx) + 2 * ptr + 3 * bside + f) % 5

\* decompress_pairs on a DTZ table: a byte
DtzByte(ptr, f, idx) == (Mix(idx) + ptr + f) % 4

\* init_table_wdl(ptr, str): maps <str>.rtbw and parses it; 0 if it cannot
init_table_wdl(ptr, str) == str \in fs.wdl

(***************************************************************************)
(* The probes thread the table state: each returns [v, success, G], the    *)
(* return value, *success and the table state it leaves.                   *)
(***************************************************************************)
Ret(v, success, G) == [v |-> v, success |-> success, G |-> G]

\* for (i = 0; i < HSHMAX; i++) if (ptr2[i].key == key) break;
HashScan(ptr2, key) ==
  LET hit == {i \in 0..(HSHMAX - 1) : ptr2[i].key = key}
  IN  IF hit = {} THEN HSHMAX ELSE lsb(hit)

\* do { p[i++] = pop_lsb(&bb) ^ mirror; } while (bb);   (pop_lsb(0) taken as 0)
PopAll(bb, mirror) ==
  IF bb = {} THEN <<XorMirror(0, mirror)>>
  ELSE [k \in 1..Cardinality(bb) |->
          XorMirror(CHOOSE s \in bb : Cardinality({t \in bb : t < s}) = k - 1, mirror)]

\* for (; i < entry->num;) { bb = pieces_cp((pc[i] ^ cmirror) >> 3, pc[i] & 0x07); ... }
RECURSIVE FillSquares(_, _, _, _, _)
FillSquares(p, pc, cmirror, mirror, i) ==
  IF i > Len(pc) THEN <<>>
  ELSE LET c   == XorColor(pc[i], cmirror)
           grp == PopAll(pieces_cp(p, c \div 8, pc[i] % 8), mirror)
       IN  grp \o FillSquares(p, pc, cmirror, mirror, i + Len(grp))

\* the choice with the vertical flip of the squares forgotten for the other key
Perspective_noflip(p, key, ekey, symmetric) ==
  IF ~symmetric
  THEN IF key # ekey
       THEN [cmirror |-> 8, mirror |-> 0, bside |-> IF pos_stm(p) = WHITE THEN 1 ELSE 0]
       ELSE [cmirror |-> 0, mirror |-> 0, bside |-> IF pos_stm(p) = WHITE THEN 0 ELSE 1]
  ELSE [cmirror |-> IF pos_stm(p) = WHITE THEN 0 ELSE 8,
        mirror  |-> IF pos_stm(p) = WHITE THEN 0 ELSE 56,
        bside   |-> 0]

\* the choice of cmirror, mirror and bside (tbprobe.c 117-131, 217-231)
Perspective(p, key, ekey, symmetric) ==
  IF ~symmetric
  THEN IF key # ekey
       THEN [cmirror |-> 8, mirror |-> 56, bside |-> IF pos_stm(p) = WHITE THEN 1 ELSE 0]
       ELSE [cmirror |-> 0, mirror |-> 0,  bside |-> IF pos_stm(p) = WHITE THEN 0 ELSE 1]
  ELSE [cmirror |-> IF pos_stm(p) = WHITE THEN 0 ELSE 8,
        mirror  |-> IF pos_stm(p) = WHITE THEN 0 ELSE 56,
        bside   |-> 0]

\* the squares p[] in the table's piece order
Squares(p, ptr, has_pawns, v) ==
  IF ~has_pawns
  THEN FillSquares(p, EntryPieces(ptr, v.bside), v.cmirror, 0, 1)
  ELSE LET lead == FillSquares(p, <<EntryPieces(ptr, 0)[1]>>, v.cmirror, v.mirror, 1)
           pc   == EntryPieces(ptr, v.bside)
       IN  SubSeq(lead, 1, Len(lead)) \o FillSquares(p, pc, v.cmirror, v.mirror, Len(lead) + 1)

\* mutant: the byte is returned as it is stored, 0..4
WdlValue_raw(ptr, bside, has_pawns, pc, sq) ==
  IF ~has_pawns
  THEN WdlByte(ptr, bside, 0, encode_piece(pc, sq))
  ELSE WdlByte(ptr, bside, pawn_file(sq), encode_pawn(pc, sq))

\* the index and the decompressed byte of the WDL table (tbprobe.c 136-168)
WdlValue(ptr, bside, has_pawns, pc, sq) ==
  IF ~has_pawns
  THEN WdlByte(ptr, bside, 0, encode_piece(pc, sq)) - 2
  ELSE WdlByte(ptr, bside, pawn_file(sq), encode_pawn(pc, sq)) - 2

WdlSide(p, ptr, v) ==
  WdlValue(ptr, v.bside, TBEntry(ptr).has_pawns, EntryPieces(ptr, v.bside),
           Squares(p, ptr, TBEntry(ptr).has_pawns, v))

WdlRead(p, ptr, key) ==
  WdlSide(p, ptr, Perspective(p, key, TBEntry(ptr).key, TBEntry(ptr).symmetric))

\* tbprobe.c 98-168: the slot i of bucket b holds the key; G counts the lookup
wdl_entry(p, success, G, key, b, i, ptr) ==
  IF ~G.ready[ptr]
       /\ ~init_table_wdl(ptr, prt_str(p, IF TBEntry(ptr).key # key THEN 1 ELSE 0))
  THEN Ret(0, 0, [G EXCEPT !.TB_hash[b][i].key = 0, !.failed = @ + 1])
  ELSE Ret(WdlRead(p, ptr, key), success, [G EXCEPT !.ready[ptr] = TRUE])

\* tbprobe.c 90-96: the scan of the bucket has stopped at i
wdl_slot(p, success, G, key, b, i) ==
  IF i = HSHMAX THEN Ret(0, 0, [G EXCEPT !.failed = @ + 1])
  ELSE wdl_entry(p, success, G, key, b, i, G.TB_hash[b][i].ptr)

wdl_bucket(p, success, G, key, b) ==
  wdl_slot(p, success, [G EXCEPT !.lookups = @ + 1], key, b, HashScan(G.TB_hash[b], key))

\* the lookup made for the bare kings as for any material
probe_wdl_table_nokvk(p, success, G) ==
  wdl_bucket(p, success, G, pos_material_key(p), Bucket(pos_material_key(p)))

probe_wdl_table(p, success, G) ==
  IF pos_material_key(p) = 2 THEN Ret(0, success, G)
  ELSE wdl_bucket(p, success, G, pos_material_key(p), Bucket(pos_material_key(p)))

(***************************************************************************)
(* DTZ tables.  A DTZ entry copies key, symmetric, has_pawns and num of    *)
(* the WDL entry; its flags and its map come from the file.                *)
(***************************************************************************)
\* entry->flags (entry->flags[f]): bit 0 the side stored, bit 1 map, bits 4 and 8
\* whether wins (losses) are stored in plies
DtzFlags(ptr, f) ==
  IF TBEntry(ptr).symmetric THEN 2
  ELSE <<0, 1, 8, 6, 0, 1, 2>>[((ptr - 1) % 7) + 1]

\* pa_flags[wdl + 2], wdl_to_map[wdl + 2] (tbcore.c)
pa_flags(wdl)   == <<8, 0, 0, 0, 4>>[wdl + 3]
wdl_to_map(wdl) == <<1, 3, 0, 2, 0>>[wdl + 3]

HasBit(flags, bit) == (flags \div bit) % 2 = 1

\* entry->map[entry->map_idx[..] + res]
DtzMap(ptr, f, m, res) == res + m + 1

\* load_dtz_table(str, key1, key2): slot 0 gets the keys and, if the WDL slot of
\* key1 is there and <str>.rtbz maps, the entry
load_dtz_table(G, str, key1, key2) ==
  LET ptr2 == G.TB_hash[Bucket(key1)]
      i    == HashScan(ptr2, key1)
      ent  == IF i # HSHMAX /\ str \in fs.dtz THEN ptr2[i].ptr ELSE 0
  IN  [G EXCEPT !.DTZ_table[0] = [key1 |-> key1, key2 |-> key2, entry |-> ent]]

DtzHit(G, key) ==
  {i \in 0..(DTZ_ENTRIES - 1) : G.DTZ_table[i].key1 = key \/ G.DTZ_table[i].key2 = key}

MoveToFront(T, i) ==
  [k \in 0..(DTZ_ENTRIES - 1) |-> IF k = 0 THEN T[i] ELSE IF k <= i THEN T[k - 1] ELSE T[k]]

ShiftDown(T) ==
  [k \in 0..(DTZ_ENTRIES - 1) |-> IF k = 0 THEN T[0] ELSE T[k - 1]]

\* tbprobe.c 193-208: the table is not in the cache; the scan of the bucket has
\* stopped at i
dtz_load(p, key, G, ptr2, i) ==
  IF i = HSHMAX THEN [ok |-> FALSE, G |-> G]
  ELSE LET mirror == IF TBEntry(ptr2[i].ptr).key # key THEN 1 ELSE 0
       IN  [ok |-> TRUE,
            G  |-> load_dtz_table([G EXCEPT !.DTZ_table = ShiftDown(G.DTZ_table)],
                                  prt_str(p, mirror), calc_key(p, mirror),
                                  calc_key(p, 1 - mirror))]

\* tbprobe.c 183-209: find the table in the cache, or load it: [ok, G]
dtz_find(p, key, G, hit) ==
  IF 0 \in hit THEN [ok |-> TRUE, G |-> G]
  ELSE IF hit # {}
  THEN [ok |-> TRUE, G |-> [G EXCEPT !.DTZ_table = MoveToFront(G.DTZ_table, lsb(hit))]]
  ELSE dtz_load(p, key, G, G.TB_hash[Bucket(key)], HashScan(G.TB_hash[Bucket(key)], key))

\* tbprobe.c 239-253, 267-283: the value at the index
dtz_value(ptr, f, flags, wdl, idx) ==
  LET res0 == DtzByte(ptr, f, idx)
      res1 == IF HasBit(flags, 2) THEN DtzMap(ptr, f, wdl_to_map(wdl), res0) ELSE res0
  IN  IF (pa_flags(wdl) = 0 \/ ~HasBit(flags, pa_flags(wdl))) \/ (wdl % 2 = 1)
      THEN res1 * 2 ELSE res1

dtz_index(has_pawns, pc, sq) ==
  IF has_pawns THEN encode_pawn(pc, sq) ELSE encode_piece(pc, sq)

\* mutant: every table stores the other side to move
dtz_side_other(p, ptr, e, v, f, flags, wdl, success, G) == Ret(0, 0 - 1, G)

\* tbprobe.c 233-285: the flags of the file f are known
dtz_side(p, ptr, e, v, f, flags, wdl, success, G) ==
  IF (flags % 2) # v.bside /\ (e.has_pawns \/ ~e.symmetric)
  THEN Ret(0, 0 - 1, G)
  ELSE Ret(dtz_value(ptr, f, flags, wdl,
                     dtz_index(e.has_pawns, EntryPieces(ptr, 0),
                               Squares(p, ptr, e.has_pawns, [v EXCEPT !.bside = 0]))),
           success, G)

dtz_file(p, ptr, e, v, f, wdl, success, G) ==
  dtz_side(p, ptr, e, v, f, DtzFlags(ptr, f), wdl, success, G)

\* the value read from the DTZ entry at DTZ_table[0] (tbprobe.c 217-285)
DtzRead(p, ptr, key, wdl, success, G) ==
  dtz_file(p, ptr, TBEntry(ptr),
           Perspective(p, key, TBEntry(ptr).key, TBEntry(ptr).symmetric),
           IF TBEntry(ptr).has_pawns
           THEN pawn_file(FillSquares(p, <<EntryPieces(ptr, 0)[1]>>,
                    Perspective(p, key, TBEntry(ptr).key, TBEntry(ptr).symmetric).cmirror,
                    Perspective(p, key, TBEntry(ptr).key, TBEntry(ptr).symmetric).mirror, 1))
           ELSE 0,
           wdl, success, G)

\* tbprobe.c 211-215: the entry at the front of the cache
dtz_front(p, key, wdl, success, c) ==
  IF ~c.ok THEN Ret(0, 0, [c.G EXCEPT !.failed = @ + 1])
  ELSE IF c.G.DTZ_table[0].entry = 0 THEN Ret(0, 0, [c.G EXCEPT !.failed = @ + 1])
  ELSE DtzRead(p, c.G.DTZ_table[0].entry, key, wdl, success, c.G)

probe_dtz_table(p, wdl, success, G) ==
  dtz_front(p, pos_material_key(p), wdl, success,
            dtz_find(p, pos_material_key(p), [G EXCEPT !.dtzs = @ + 1],
                     DtzHit(G, pos_material_key(p))))

(***************************************************************************)
(* Moves.  A move is [type, occ, pawn, legal, to, under]: type_of_m, whether *)
(* the to-square is occupied, whether the moved piece is a pawn, is_legal,  *)
(* the position after do_move, and for a capturing queen promotion the      *)
(* positions after the three underpromotions to the same square.            *)
(***************************************************************************)
is_capture(m) == m.occ \/ m.type = "ENPASSANT"
is_legal(m)   == m.legal

\* do_move(pos, m, gives_check): rule50 restarts on a capture or a pawn move
do_move(p, m) ==
  [m.to EXCEPT !.rule50 = IF is_capture(m) \/ m.pawn THEN 0 ELSE p.rule50 + 1]

\* the moves done and not yet undone
DoG(G)   == [G EXCEPT !.ply = @ + 1, !.top = IF @ < G.ply + 1 THEN G.ply + 1 ELSE @]
UndoG(G) == [G EXCEPT !.ply = @ - 1]

\* the engine's generators: pseudo-legal moves in the engine's order
generate_captures(p)     == SelectSeq(p.moves, LAMBDA m : is_capture(m) \/ m.type = "PROMOTION")
generate_quiets(p)       == SelectSeq(p.moves, LAMBDA m : ~is_capture(m) /\ m.type # "PROMOTION")
generate_evasions(p)     == p.moves
generate_non_evasions(p) == p.moves
generate_legal(p)        == SelectSeq(p.moves, LAMBDA m : is_legal(m))

\* add_underprom_caps: three more moves for every capturing promotion
RECURSIVE UnderProms(_)
UnderProms(list) ==
  IF list = <<>> THEN <<>>
  ELSE (IF Head(list).type = "PROMOTION" /\ Head(list).occ
        THEN [k \in 1..Len(Head(list).under) |->
                [Head(list) EXCEPT !.to = Head(list).under[k], !.under = <<>>]]
        ELSE <<>>) \o UnderProms(Tail(list))

add_underprom_caps(list) == list \o UnderProms(list)

\* the list probe_ab and TB_probe_wdl walk (tbprobe.c 313-319, 365-370)
CaptureList(p) ==
  IF ~pos_checkers(p) THEN add_underprom_caps(generate_captures(p))
  ELSE generate_evasions(p)

(***************************************************************************)
(* probe_ab (tbprobe.c 305-339)                                            *)
(***************************************************************************)
RECURSIVE probe_ab(_, _, _, _, _), ab_loop(_, _, _, _, _, _, _)

\* mutant: the stored value is returned though a capture has done better
ab_table_noalpha(alpha, r) == Ret(r.v, r.success, r.G)

\* tbprobe.c 336-338: r is what probe_wdl_table returns
ab_table(alpha, r) == Ret(IF alpha >= r.v THEN alpha ELSE r.v, r.success, r.G)

\* mutant: a failed probe of the child returns before the move is undone
ab_step_noundo(p, list, k, alpha, beta, r) ==
  IF r.success = 0 THEN Ret(0, 0, r.G)
  ELSE IF 0 - r.v > alpha
  THEN IF 0 - r.v >= beta THEN Ret(0 - r.v, r.success, UndoG(r.G))
       ELSE ab_loop(p, list, k + 1, 0 - r.v, beta, r.success, UndoG(r.G))
  ELSE ab_loop(p, list, k + 1, alpha, beta, r.success, UndoG(r.G))

\* mutant: no cutoff, the loop goes on with the value as alpha
ab_step_nocut(p, list, k, alpha, beta, r) ==
  IF r.success = 0 THEN Ret(0, 0, UndoG(r.G))
  ELSE IF 0 - r.v > alpha
  THEN ab_loop(p, list, k + 1, 0 - r.v, beta, r.success, UndoG(r.G))
  ELSE ab_loop(p, list, k + 1, alpha, beta, r.success, UndoG(r.G))

\* tbprobe.c 327-333: r is what probe_ab returns for the child
ab_step(p, list, k, alpha, beta, r) ==
  IF r.success = 0 THEN Ret(0, 0, UndoG(r.G))
  ELSE IF 0 - r.v > alpha
  THEN IF 0 - r.v >= beta THEN Ret(0 - r.v, r.success, UndoG(r.G))
       ELSE ab_loop(p, list, k + 1, 0 - r.v, beta, r.success, UndoG(r.G))
  ELSE ab_loop(p, list, k + 1, alpha, beta, r.success, UndoG(r.G))

ab_loop(p, list, k, alpha, beta, success, G) ==
  IF k > Len(list) THEN ab_table(alpha, probe_wdl_table(p, success, G))
  ELSE IF ~is_capture(list[k]) \/ ~is_legal(list[k])
  THEN ab_loop(p, list, k + 1, alpha, beta, success, G)
  ELSE ab_step(p, list, k, alpha, beta,
               probe_ab(do_move(p, list[k]), 0 - beta, 0 - alpha, success, DoG(G)))

probe_ab(p, alpha, beta, success, G) ==
  ab_loop(p, CaptureList(p), 1, alpha, beta, success, G)

(***************************************************************************)
(* TB_probe_wdl (tbprobe.c 356-450)                                        *)
(***************************************************************************)
\* the state of the capture loop (378-396): done iff it has returned
WdlLoop(done, v, success, G, best_cap, best_ep) ==
  [done |-> done, v |-> v, success |-> success, G |-> G,
   best_cap |-> best_cap, best_ep |-> best_ep]

RECURSIVE wdl_loop(_, _, _, _, _, _, _)

\* mutant: the loop goes on after a failed probe of a child
wdl_step_noprop(p, list, k, best_cap, best_ep, r) ==
  IF 0 - r.v > best_cap
  THEN IF 0 - r.v = 2 THEN WdlLoop(TRUE, 2, 2, UndoG(r.G), best_cap, best_ep)
       ELSE IF list[k].type # "ENPASSANT"
       THEN wdl_loop(p, list, k + 1, 0 - r.v, best_ep, r.success, UndoG(r.G))
       ELSE IF 0 - r.v > best_ep
       THEN wdl_loop(p, list, k + 1, best_cap, 0 - r.v, r.success, UndoG(r.G))
       ELSE wdl_loop(p, list, k + 1, best_cap, best_ep, r.success, UndoG(r.G))
  ELSE wdl_loop(p, list, k + 1, best_cap, best_ep, r.success, UndoG(r.G))

\* tbprobe.c 385-395: r is what probe_ab returns for the child
wdl_step(p, list, k, best_cap, best_ep, r) ==
  IF r.success = 0 THEN WdlLoop(TRUE, 0, 0, UndoG(r.G), best_cap, best_ep)
  ELSE IF 0 - r.v > best_cap
  THEN IF 0 - r.v = 2 THEN WdlLoop(TRUE, 2, 2, UndoG(r.G), best_cap, best_ep)
       ELSE IF list[k].type # "ENPASSANT"
       THEN wdl_loop(p, list, k + 1, 0 - r.v, best_ep, r.success, UndoG(r.G))
       ELSE IF 0 - r.v > best_ep
       THEN wdl_loop(p, list, k + 1, best_cap, 0 - r.v, r.success, UndoG(r.G))
       ELSE wdl_loop(p, list, k + 1, best_cap, best_ep, r.success, UndoG(r.G))
  ELSE wdl_loop(p, list, k + 1, best_cap, best_ep, r.success, UndoG(r.G))

wdl_loop(p, list, k, best_cap, best_ep, success, G) ==
  IF k > Len(list) THEN WdlLoop(FALSE, 0, success, G, best_cap, best_ep)
  ELSE IF ~is_capture(list[k]) \/ ~is_legal(list[k])
  THEN wdl_loop(p, list, k + 1, best_cap, best_ep, success, G)
  ELSE wdl_step(p, list, k, best_cap, best_ep,
                probe_ab(do_move(p, list[k]), 0 - 2, 0 - best_cap, success, DoG(G)))

\* the stalemate test (428-441): no legal move other than en passant captures
NoLegalNonEp(list) == \A k \in DOMAIN list : list[k].type = "ENPASSANT" \/ ~is_legal(list[k])
NoLegal(list)      == \A k \in DOMAIN list : ~is_legal(list[k])

\* mutant: a pseudo-legal quiet move counts as a move, legal or not
StalemateDetected_pseudo(p, list) ==
  /\ NoLegalNonEp(list)
  /\ (pos_checkers(p) \/ generate_quiets(p) = <<>>)

StalemateDetected(p, list) ==
  /\ NoLegalNonEp(list)
  /\ (pos_checkers(p) \/ NoLegal(generate_quiets(p)))

\* mutant: success = 2 only for a capture strictly better than the stored value
wdl_table_strict(p, list, c, r) ==
  IF r.success = 0 THEN Ret(0, 0, r.G)
  ELSE IF c.best_ep > c.best_cap /\ c.best_ep > r.v
  THEN Ret(c.best_ep, 2, r.G)
  ELSE
    LET best_cap == IF c.best_ep > c.best_cap THEN c.best_ep ELSE c.best_cap
    IN  IF best_cap > r.v
        THEN Ret(best_cap, 1 + (IF best_cap > 0 THEN 1 ELSE 0), r.G)
        ELSE IF c.best_ep > 0 - 3 /\ r.v = 0 /\ StalemateDetected(p, list)
        THEN Ret(c.best_ep, 2, r.G)
        ELSE Ret(r.v, r.success, r.G)

\* tbprobe.c 401-449: c is the state the loop has left, r what probe_wdl_table returns
wdl_table(p, list, c, r) ==
  IF r.success = 0 THEN Ret(0, 0, r.G)
  ELSE IF c.best_ep > c.best_cap /\ c.best_ep > r.v
  THEN Ret(c.best_ep, 2, r.G)
  ELSE
    LET best_cap == IF c.best_ep > c.best_cap THEN c.best_ep ELSE c.best_cap
    IN  IF best_cap >= r.v
        THEN Ret(best_cap, 1 + (IF best_cap > 0 THEN 1 ELSE 0), r.G)
        ELSE IF c.best_ep > 0 - 3 /\ r.v = 0 /\ StalemateDetected(p, list)
        THEN Ret(c.best_ep, 2, r.G)
        ELSE Ret(r.v, r.success, r.G)

wdl_captures(p, list, c) ==
  IF c.done THEN Ret(c.v, c.success, c.G)
  ELSE wdl_table(p, list, c, probe_wdl_table(p, c.success, c.G))

TB_probe_wdl(p, G) ==
  wdl_captures(p, CaptureList(p), wdl_loop(p, CaptureList(p), 1, 0 - 3, 0 - 3, 1, G))

(***************************************************************************)
(* TB_probe_dtz (tbprobe.c 452-572)                                        *)
(***************************************************************************)
\* the table with the signs of the losses lost
wdl_to_dtz_unsigned(wdl) == <<1, 101, 0, 101, 1>>[wdl + 3]

wdl_to_dtz(wdl) == <<0 - 1, 0 - 101, 0, 101, 1>>[wdl + 3]

INT32_MAX == 2147483647

IsPawnPush(m) == m.pawn /\ ~is_capture(m) /\ is_legal(m)
IsPieceQuiet(m) == ~is_capture(m) /\ ~m.pawn /\ is_legal(m)

\* the moves TB_probe_dtz generates (503-507, 545-549)
AllMoves(p) == IF ~pos_checkers(p) THEN generate_non_evasions(p) ELSE generate_evasions(p)

PawnLoop(done, v, success, G) == [done |-> done, v |-> v, success |-> success, G |-> G]

RECURSIVE pawn_loop(_, _, _, _, _, _)

\* tbprobe.c 513-519: r is what TB_probe_wdl returns for the child
pawn_step(p, list, k, wdl, r) ==
  IF r.success = 0 THEN PawnLoop(TRUE, 0, 0, UndoG(r.G))
  ELSE IF 0 - r.v = wdl THEN PawnLoop(TRUE, wdl_to_dtz(wdl), r.success, UndoG(r.G))
  ELSE pawn_loop(p, list, k + 1, wdl, r.success, UndoG(r.G))

\* the search for a winning pawn move (509-520)
pawn_loop(p, list, k, wdl, success, G) ==
  IF k > Len(list) THEN PawnLoop(FALSE, 0, success, G)
  ELSE IF ~IsPawnPush(list[k]) THEN pawn_loop(p, list, k + 1, wdl, success, G)
  ELSE pawn_step(p, list, k, wdl, TB_probe_wdl(do_move(p, list[k]), DoG(G)))

RECURSIVE TB_probe_dtz(_, _), dtz_loop(_, _, _, _, _, _, _)

\* the call of TB_probe_dtz at 560 begins and returns
Nest(G)   == [G EXCEPT !.nest = @ + 1, !.deep = IF @ < G.nest + 1 THEN G.nest + 1 ELSE @]
Unnest(G) == [G EXCEPT !.nest = @ - 1]

\* tbprobe.c 556-568: r is what TB_probe_dtz returns for the child
dtz_step(p, list, k, wdl, best, r) ==
  IF r.success = 0 THEN Ret(0, 0, UndoG(Unnest(r.G)))
  ELSE IF wdl > 0
  THEN dtz_loop(p, list, k + 1, wdl,
                IF 0 - r.v > 0 /\ (0 - r.v) + 1 < best THEN (0 - r.v) + 1 ELSE best,
                r.success, UndoG(Unnest(r.G)))
  ELSE dtz_loop(p, list, k + 1, wdl,
                IF (0 - r.v) - 1 < best THEN (0 - r.v) - 1 ELSE best,
                r.success, UndoG(Unnest(r.G)))

\* probing DTZ for the other side to move (551-571)
dtz_loop(p, list, k, wdl, best, success, G) ==
  IF k > Len(list) THEN Ret(best, success, G)
  ELSE IF ~IsPieceQuiet(list[k]) THEN dtz_loop(p, list, k + 1, wdl, best, success, G)
  ELSE dtz_step(p, list, k, wdl, best, TB_probe_dtz(do_move(p, list[k]), Nest(DoG(G))))

\* tbprobe.c 523-571: d is what probe_dtz_table returns
dtz_table(p, wdl, d) ==
  IF d.success >= 0
  THEN Ret(wdl_to_dtz(wdl) + (IF wdl > 0 THEN d.v ELSE 0 - d.v), d.success, d.G)
  ELSE dtz_loop(p, AllMoves(p), 1, wdl,
                IF wdl > 0 THEN INT32_MAX ELSE wdl_to_dtz(wdl), d.success, d.G)

\* tbprobe.c 509-523: pw is the state the pawn loop has left
dtz_pawns(p, wdl, pw) ==
  IF pw.done THEN Ret(pw.v, pw.success, pw.G)
  ELSE dtz_table(p, wdl, probe_dtz_table(p, wdl, pw.success, pw.G))

\* mutant: the DTZ table is probed though a capture is the best move
dtz_wdl_nocap(p, w) ==
  IF w.success = 0 THEN Ret(0, 0, w.G)
  ELSE IF w.v = 0 THEN Ret(0, w.success, w.G)
  ELSE dtz_pawns(p, w.v,
                 IF w.v > 0 THEN pawn_loop(p, AllMoves(p), 1, w.v, w.success, w.G)
                 ELSE PawnLoop(FALSE, 0, w.success, w.G))

\* tbprobe.c 486-509: w is what TB_probe_wdl returns
dtz_wdl(p, w) ==
  IF w.success = 0 THEN Ret(0, 0, w.G)
  ELSE IF w.v = 0 THEN Ret(0, w.success, w.G)
  ELSE IF w.success = 2 THEN Ret(wdl_to_dtz(w.v), 2, w.G)
  ELSE dtz_pawns(p, w.v,
                 IF w.v > 0 THEN pawn_loop(p, AllMoves(p), 1, w.v, w.success, w.G)
                 ELSE PawnLoop(FALSE, 0, w.success, w.G))

TB_probe_dtz(p, G) == dtz_wdl(p, TB_probe_wdl(p, G))

(***************************************************************************)
(* has_repeated (tbprobe.c 576-592).  stk[1] is st, stk[2] is st-1, ...    *)
(***************************************************************************)
RECURSIVE rep_inner(_, _, _, _, _), has_repeated_from(_, _)
\* do { stp -= 2; if (stp->key == st->key) return 1; i += 2; } while (i <= e);
rep_inner(stk, st, stp, i, e) ==
  IF stp + 2 > Len(stk) THEN "out"
  ELSE IF stk[stp + 2].key = stk[st].key THEN "yes"
  ELSE IF i + 2 <= e THEN rep_inner(stk, st, stp + 2, i + 2, e)
  ELSE "next"

\* mutant: only st is compared with the states before it
rep_outer_once(stk, st, r) == r = "yes"

rep_outer(stk, st, r) ==
  IF r = "yes" THEN TRUE
  ELSE IF r = "out" \/ st + 1 > Len(stk) THEN FALSE
  ELSE has_repeated_from(stk, st + 1)

has_repeated_from(stk, st) ==
  IF stk[st].pliesFromNull < 4 THEN FALSE
  ELSE rep_outer(stk, st, rep_inner(stk, st, st + 2, 4, stk[st].pliesFromNull))

has_repeated(stk) == has_repeated_from(stk, 1)

(***************************************************************************)
(* The root filters (tbprobe.c 594-749).  rm is the engine's root move     *)
(* list: rm[i].move is the number of a move of the position in its move    *)
(* list, rm[i].value the value the filter gives it.  The score is kept as  *)
(* the index into wdl_to_Value or as the numerator of the scaled score.    *)
(***************************************************************************)
RootOut(r, success, G, list, num, score) ==
  [ret |-> r, success |-> success, G |-> G, rm |-> list, num |-> num, score |-> score]

\* tbprobe.c 626-629, 631-632: r is what the probe of the child returns
root_dtz_value(r) ==
  Ret(IF 0 - r.v > 0 THEN (0 - r.v) + 1 ELSE IF 0 - r.v < 0 THEN (0 - r.v) - 1 ELSE 0,
      r.success, UndoG(r.G))

root_wdl_value(r) == Ret(wdl_to_dtz(0 - r.v), r.success, UndoG(r.G))

\* the value of one root move (619-635): [v, success, G]
RootChildValue(child, dtz, success, G) ==
  IF pos_checkers(child) /\ dtz > 0 /\ generate_legal(child) = <<>>
  THEN Ret(1, success, UndoG(G))
  ELSE IF pos_rule50_count(child) # 0
  THEN root_dtz_value(TB_probe_dtz(child, G))
  ELSE root_wdl_value(TB_probe_wdl(child, G))

RootMoveValue(p, move, dtz, success, G) ==
  RootChildValue(do_move(p, move), dtz, success, DoG(G))

RootLoop(ok, list, success, G) == [ok |-> ok, rm |-> list, success |-> success, G |-> G]

\* the loop over the root moves (618-639)
RECURSIVE root_loop(_, _, _, _, _, _, _)

root_step(p, list, i, num, dtz, r) ==
  IF r.success = 0 THEN RootLoop(FALSE, list, 0, r.G)
  ELSE root_loop(p, [list EXCEPT ![i].value = r.v], i + 1, num, dtz, r.success, r.G)

root_loop(p, list, i, num, dtz, success, G) ==
  IF i > num THEN RootLoop(TRUE, list, success, G)
  ELSE root_step(p, list, i, num, dtz,
                 RootMoveValue(p, p.moves[list[i].move], dtz, success, G))

\* for (i = 0; i < num; i++) if (rm[i].value is one of keep) rm[j++].move = rm[i].move;
Kept(list, num, keep) == SelectSeq(SubSeq(list, 1, num), LAMBDA e : e.value \in keep)

CompactTo(list, kept) ==
  [i \in DOMAIN list |-> IF i <= Len(kept) THEN [list[i] EXCEPT !.move = kept[i].move]
                         ELSE list[i]]

Filtered(success, G, list, kept, score) ==
  RootOut(1, success, G, CompactTo(list, kept), Len(kept), score)

RECURSIVE MinPositive(_, _, _, _), MaxValue(_, _, _, _)
\* for (...) if (v > 0 && v < best) best = v;
MinPositive(list, i, num, best) ==
  IF i > num THEN best
  ELSE MinPositive(list, i + 1, num,
                   IF list[i].value > 0 /\ list[i].value < best THEN list[i].value ELSE best)

\* for (...) if (best < rm[i].value) best = rm[i].value;
MaxValue(list, i, num, best) ==
  IF i > num THEN best
  ELSE MaxValue(list, i + 1, num, IF best < list[i].value THEN list[i].value ELSE best)

\* a + b <= 100 in int arithmetic, for a, b >= 0.  INT32_MAX + cnt50 overflows:
\* the build either wraps the sum (negative, so the test succeeds) or compares
\* as if it had not overflowed
SumAtMost100(a, b, wraps) ==
  IF a > INT32_MAX - b THEN wraps ELSE a + b <= 100

\* tbprobe.c 644-661
RootWdl(dtz, cnt50, wraps) ==
  IF dtz > 0 THEN (IF SumAtMost100(dtz, cnt50, wraps) THEN 2 ELSE 1)
  ELSE IF dtz < 0 THEN (IF SumAtMost100(0 - dtz, cnt50, wraps) THEN 0 - 2 ELSE 0 - 1)
  ELSE 0

ScoreOf(wdl, dtz, cnt50) ==
  IF wdl = 1 /\ dtz <= 100 THEN [kind |-> "scaled", v |-> 200 - dtz - cnt50]
  ELSE IF wdl = 0 - 1 /\ dtz >= 0 - 100 THEN [kind |-> "scaled", v |-> 0 - (200 + dtz - cnt50)]
  ELSE [kind |-> "wdl", v |-> wdl]

RootScore(dtz, cnt50, wraps) == ScoreOf(RootWdl(dtz, cnt50, wraps), dtz, cnt50)

NoScore == [kind |-> "unset", v |-> 0]

\* max_dtz_allowed relaxed without a look at the repetitions
max_dtz_allowed_norep(stk, best, cnt50) ==
  IF best + cnt50 <= 99 THEN 99 - cnt50 ELSE best

\* tbprobe.c 666-688: the winning root; best is the smallest positive value
max_dtz_allowed(stk, best, cnt50) ==
  IF ~has_repeated(stk) /\ best + cnt50 <= 99 THEN 99 - cnt50 ELSE best

\* every winning move kept, whatever max_dtz_allowed
KeepWinning_positive(list, num, max) == Kept(list, num, 1..INT32_MAX)

KeepWinning(list, num, max) == Kept(list, num, 1..max)

\* tbprobe.c 689-702: the losing root; best is what the loop at 691-693 leaves
KeepLosing(list, num, best) == Kept(list, num, {best})

root_losing(list, num, cnt50, best, success, G, score) ==
  IF (0 - best) * 2 + cnt50 < 100 THEN RootOut(1, success, G, list, num, score)
  ELSE Filtered(success, G, list, KeepLosing(list, num, best), score)

\* the drawing root keeping every move
root_filter_drawall(stk, num, cnt50, dtz, L, score) ==
  IF ~L.ok THEN RootOut(0, L.success, L.G, L.rm, num, NoScore)
  ELSE IF dtz > 0
  THEN Filtered(L.success, L.G, L.rm,
                KeepWinning(L.rm, num,
                            max_dtz_allowed(stk, MinPositive(L.rm, 1, num, 65535), cnt50)),
                score)
  ELSE IF dtz < 0
  THEN root_losing(L.rm, num, cnt50, MaxValue(L.rm, 1, num, 0), L.success, L.G, score)
  ELSE RootOut(1, L.success, L.G, L.rm, num, score)

\* the filter going on after a failed probe of a child
root_filter_nofail(stk, num, cnt50, dtz, L, score) ==
  IF dtz > 0
  THEN Filtered(L.success, L.G, L.rm,
                KeepWinning(L.rm, num,
                            max_dtz_allowed(stk, MinPositive(L.rm, 1, num, 65535), cnt50)),
                score)
  ELSE IF dtz < 0
  THEN root_losing(L.rm, num, cnt50, MaxValue(L.rm, 1, num, 0), L.success, L.G, score)
  ELSE Filtered(L.success, L.G, L.rm, Kept(L.rm, num, {0}), score)

\* tbprobe.c 641-711: L is the state the loop over the root moves has left
root_filter(stk, num, cnt50, dtz, L, score) ==
  IF ~L.ok THEN RootOut(0, L.success, L.G, L.rm, num, NoScore)
  ELSE IF dtz > 0
  THEN Filtered(L.success, L.G, L.rm,
                KeepWinning(L.rm, num,
                            max_dtz_allowed(stk, MinPositive(L.rm, 1, num, 65535), cnt50)),
                score)
  ELSE IF dtz < 0
  THEN root_losing(L.rm, num, cnt50, MaxValue(L.rm, 1, num, 0), L.success, L.G, score)
  ELSE Filtered(L.success, L.G, L.rm, Kept(L.rm, num, {0}), score)

\* tbprobe.c 612-616: d is what TB_probe_dtz returns for the root
root_dtz(p, stk, list, num_moves, wraps, d) ==
  IF d.success = 0 THEN RootOut(0, 0, d.G, list, num_moves, NoScore)
  ELSE root_filter(stk, num_moves, pos_rule50_count(p), d.v,
                   root_loop(p, list, 1, num_moves, d.v, d.success, d.G),
                   RootScore(d.v, pos_rule50_count(p), wraps))

TB_root_probe(p, stk, list, num_moves, wraps, G) ==
  root_dtz(p, stk, list, num_moves, wraps, TB_probe_dtz(p, G))

RECURSIVE root_wdl_loop(_, _, _, _, _, _, _)

RootWdlLoop(ok, list, best, success, G) ==
  [ok |-> ok, rm |-> list, best |-> best, success |-> success, G |-> G]

\* the value of the child taken without the negation
root_wdl_step_noneg(p, list, i, num, best, r) ==
  IF r.success = 0 THEN RootWdlLoop(FALSE, list, best, 0, UndoG(r.G))
  ELSE root_wdl_loop(p, [list EXCEPT ![i].value = r.v], i + 1, num,
                     IF r.v > best THEN r.v ELSE best, r.success, UndoG(r.G))

\* the loop of TB_root_probe_wdl (732-740)

root_wdl_step(p, list, i, num, best, r) ==
  IF r.success = 0 THEN RootWdlLoop(FALSE, list, best, 0, UndoG(r.G))
  ELSE root_wdl_loop(p, [list EXCEPT ![i].value = 0 - r.v], i + 1, num,
                     IF 0 - r.v > best THEN 0 - r.v ELSE best, r.success, UndoG(r.G))

root_wdl_loop(p, list, i, num, best, success, G) ==
  IF i > num THEN RootWdlLoop(TRUE, list, best, success, G)
  ELSE root_wdl_step(p, list, i, num, best,
                     TB_probe_wdl(do_move(p, p.moves[list[i].move]), DoG(G)))

\* tbprobe.c 742-748: L is the state the loop has left
root_wdl_filter(num, L, score) ==
  IF ~L.ok THEN RootOut(0, L.success, L.G, L.rm, num, score)
  ELSE Filtered(L.success, L.G, L.rm, Kept(L.rm, num, {L.best}), score)

\* tbprobe.c 723-730: w is what TB_probe_wdl returns for the root
root_wdl(p, list, num_moves, w) ==
  IF w.success = 0 THEN RootOut(0, 0, w.G, list, num_moves, NoScore)
  ELSE root_wdl_filter(num_moves,
                       root_wdl_loop(p, list, 1, num_moves, 0 - 2, w.success, w.G),
                       [kind |-> "wdl", v |-> w.v])

TB_root_probe_wdl(p, list, num_moves, G) == root_wdl(p, list, num_moves, TB_probe_wdl(p, G))

(***************************************************************************)
(* Positions.  The pieces of a material stand on squares that the          *)
(* placement number t picks; a capture leads to a position with the        *)
(* captured piece gone and the other side to move.                         *)
(***************************************************************************)
PlaceSq(j, t) == 8 + ((19 * j + t + 2 * j * t) % 48)

Placement(name, t) ==
  LET codes == CodesOf(name, 0)
  IN  [pc \in PieceCodes |-> {PlaceSq(j, t) : j \in {i \in DOMAIN codes : codes[i] = pc}}]

Node(name, stm, t, checkers, moves) ==
  [bb |-> Placement(name, t), materialKey |-> calc_key_from_pcs(NamePcs(name), 0),
   stm |-> stm, checkers |-> checkers, rule50 |-> 0, moves |-> moves]

\* the material after the side to move has captured a piece of type pt
RemoveOne(seq, pt) ==
  LET k == CHOOSE i \in DOMAIN seq : seq[i] = pt /\ \A j \in 1..(i - 1) : seq[j] # pt
  IN  [i \in 1..(Len(seq) - 1) |-> IF i < k THEN seq[i] ELSE seq[i + 1]]

AfterCapture(name, stm, pt) ==
  IF stm = WHITE THEN <<name[1], RemoveOne(name[2], pt)>>
  ELSE <<RemoveOne(name[1], pt), name[2]>>

Move(type, occ, pawn, legal, to) ==
  [type |-> type, occ |-> occ, pawn |-> pawn, legal |-> legal, to |-> to, under |-> <<>>]

SeqsUpTo(S, n) == UNION {[1..k -> S] : k \in 0..n}

Placed == 0..(NumPlaced - 1)

Leaves(name, stm, T) == {Node(name, stm, t, FALSE, <<>>) : t \in T}

KPvKP  == <<<<6, 1>>, <<6, 1>>>>
KQPvKR == <<<<6, 5, 1>>, <<6, 4>>>>
KQvK   == <<<<6, 5>>, <<6>>>>
KRvK   == <<<<6, 4>>, <<6>>>>
KPvK   == <<<<6, 1>>, <<6>>>>
KPvKR  == <<<<6, 1>>, <<6, 4>>>>        \* no table of this material is installed
KvK    == <<<<6>>, <<6>>>>

Swap(name) == <<name[2], name[1]>>
Capture(to) == Move("NORMAL", TRUE, FALSE, TRUE, to)
Quiet(pawn, legal, to) == Move("NORMAL", FALSE, pawn, legal, to)

(***************************************************************************)
(* Family 1: king and pawn each, up to MaxCaptures captures of the pawn    *)
(* (en passant or not, legal or not) and at most one quiet move.           *)
(***************************************************************************)
Fam1Captures(stm) ==
  LET kids == Leaves(AfterCapture(KPvKP, stm, PAWN), 1 - stm, Placed)
  IN  {Move("NORMAL", TRUE, FALSE, TRUE, c) : c \in kids}
        \cup {Move("NORMAL", TRUE, TRUE, FALSE, c) : c \in kids}
        \cup {Move("ENPASSANT", FALSE, TRUE, TRUE, c) : c \in kids}

Fam1Quiets(stm) ==
  {<<>>} \cup {<<Quiet(FALSE, l, Node(KPvKP, 1 - stm, 0, FALSE, <<>>))>> : l \in BOOLEAN}

Family1 ==
  {Node(KPvKP, WHITE, t, FALSE, caps \o q) :
     t \in Placed, caps \in SeqsUpTo(Fam1Captures(WHITE), MaxCaptures), q \in Fam1Quiets(WHITE)}
  \cup
  {Node(KPvKP, WHITE, t, TRUE, caps) :
     t \in Placed, caps \in SeqsUpTo(Fam1Captures(WHITE), MaxCaptures)}

(***************************************************************************)
(* Family 2: captures two deep.  Every capture leads to a position from    *)
(* which each piece left to the other side may be captured in turn.        *)
(***************************************************************************)
\* the piece types the side to move can capture, queen first
Victims(name, stm) == SelectSeq(name[2 - stm], LAMBDA pt : pt # KING)

Fam2Mid(name, stm, t, n) ==
  LET vs == Victims(name, stm)
      k  == IF n < Len(vs) THEN n ELSE Len(vs)
  IN  Node(name, stm, t % NumPlaced, FALSE,
           [i \in 1..k |-> Capture(Node(AfterCapture(name, stm, vs[i]), 1 - stm,
                                        (t + i) % NumPlaced, FALSE, <<>>))])

Fam2Moves(name, stm, t) ==
  LET vs == Victims(name, stm)
  IN  {Capture(Fam2Mid(AfterCapture(name, stm, vs[i]), 1 - stm, t + d, n)) :
         i \in DOMAIN vs, d \in 0..1, n \in 0..2}

Family2(T) ==
  UNION {{Node(KQPvKR, stm, t, FALSE, caps) :
             caps \in SeqsUpTo(Fam2Moves(KQPvKR, stm, t), MaxCaptures)} :
           stm \in {WHITE, BLACK}, t \in T}
  \cup {Fam2Mid(KPvKR, WHITE, t, n) : t \in T, n \in 0..1}

(***************************************************************************)
(* Family 3: quiet moves.  A root of one of the three-piece materials with *)
(* up to MaxQuiets moves: piece moves to a position with or without a      *)
(* quiet reply, a move that mates, a pawn push.                            *)
(***************************************************************************)
Fam3Child(name, stm, t, n) ==
  Node(name, stm, t % NumPlaced, FALSE,
       IF n = 0 THEN <<>>
       ELSE <<Quiet(FALSE, TRUE, Node(name, 1 - stm, (t + 1) % NumPlaced, FALSE, <<>>))>>)

Fam3Moves(name, stm, t) ==
  {Quiet(FALSE, TRUE, Fam3Child(name, 1 - stm, t + 1, 1)),
   Quiet(FALSE, TRUE, Fam3Child(name, 1 - stm, t + 2, 0)),
   Quiet(FALSE, TRUE, Node(name, 1 - stm, (t + 3) % NumPlaced, TRUE, <<>>))}
  \cup (IF \E i \in DOMAIN name[1 + stm] : name[1 + stm][i] = PAWN
        THEN {Quiet(TRUE, TRUE, Fam3Child(name, 1 - stm, t + 4, 0))} ELSE {})

Family3(T) ==
  UNION {{Node(name, stm, t, FALSE, ms) :
             ms \in SeqsUpTo(Fam3Moves(name, stm, t), MaxQuiets)} :
           name \in {KQvK, KRvK, KPvK}, stm \in {WHITE, BLACK}, t \in T}

(***************************************************************************)
(* Family 4: the bare kings, with or without a king move, and the capture  *)
(* that leaves them.                                                       *)
(***************************************************************************)
Family4 ==
  UNION {{Node(KvK, stm, t, FALSE, <<>>),
          Node(KvK, stm, t, FALSE, <<Quiet(FALSE, TRUE, Node(KvK, 1 - stm, 0, FALSE, <<>>))>>)} :
           stm \in {WHITE, BLACK}, t \in Placed}
  \cup {Node(KQvK, BLACK, t, FALSE, <<Capture(Node(KvK, WHITE, 0, FALSE, <<>>))>>) : t \in Placed}

(***************************************************************************)
(* Family 5: pawn moves.  King and pawn against king, the side with the    *)
(* pawn to move, with up to MaxQuiets pawn moves: a push, a promotion to a *)
(* queen, a promotion to a knight (no table of KNvK is installed).         *)
(***************************************************************************)
KNvK == <<<<6, 2>>, <<6>>>>

Fam5Moves ==
  {Quiet(TRUE, TRUE, Node(name, BLACK, t, FALSE, <<>>)) : name \in {KPvK, KQvK}, t \in Placed}
  \cup {Quiet(TRUE, TRUE, Node(KNvK, BLACK, 0, FALSE, <<>>))}

Family5 ==
  {Node(KPvK, WHITE, t, FALSE, ms) : t \in Placed, ms \in SeqsUpTo(Fam5Moves, MaxQuiets)}

(***************************************************************************)
(* Family 6: the side to move is in check and has no move.                 *)
(***************************************************************************)
Family6 ==
  {Node(name, stm, t, TRUE, <<>>) : name \in {KQvK, KRvK}, stm \in {WHITE, BLACK}, t \in Placed}

(***************************************************************************)
(* The stacks of the root: st, st-1, ... back to the last irreversible     *)
(* move, with or without a repetition, and the rule50 counter that goes    *)
(* with them.                                                              *)
(***************************************************************************)
Stack0 == <<[key |-> 5, pliesFromNull |-> 0]>>
StackOf(keys) == [i \in DOMAIN keys |-> [key |-> keys[i], pliesFromNull |-> Len(keys) - i]]
StackNoRep == StackOf(<<5, 6, 7, 8, 9>>)
StackRep   == StackOf(<<5, 6, 7, 8, 5>>)

RootContexts ==
  {[rule50 |-> 0, stack |-> Stack0],
   [rule50 |-> 4, stack |-> StackRep],
   [rule50 |-> NearDraw, stack |-> StackNoRep],
   [rule50 |-> NearDraw, stack |-> StackRep],
   [rule50 |-> 100, stack |-> StackNoRep]}

(***************************************************************************)
(* The files on disk.                                                      *)
(***************************************************************************)
AllNames == {TableNames[i] : i \in 1..NumTables}
AllFiles == [wdl |-> AllNames, dtz |-> AllNames]
NoKPvK   == [wdl |-> AllNames \ {KPvK}, dtz |-> AllNames]
NoDtzFiles == [wdl |-> AllNames, dtz |-> {}]

(***************************************************************************)
(* What the engine may hand to the probing code.                           *)
(***************************************************************************)
Scenario(p, c, f) == [pos |-> [p EXCEPT !.rule50 = c.rule50], stack |-> c.stack, fs |-> f]

Scenarios ==
  {Scenario(p, [rule50 |-> 0, stack |-> Stack0], AllFiles) :
     p \in Family1 \cup Family2(Placed) \cup Family4 \cup Family5 \cup Family6}
  \cup {Scenario(p, c, AllFiles) : p \in Family3(Placed), c \in RootContexts}
  \cup {Scenario(p, [rule50 |-> 0, stack |-> Stack0], f) :
          p \in Family2({0}) \cup Family3({0}), f \in {NoKPvK, NoDtzFiles}}

\* the engine's root move list: the legal moves
RootMoves(p) ==
  LET legal == SelectSeq([i \in DOMAIN p.moves |-> i], LAMBDA i : is_legal(p.moves[i]))
  IN  [i \in DOMAIN legal |-> [move |-> legal[i], value |-> 0]]

(***************************************************************************)
(* The state machine: the engine holds a position and calls an entry point. *)
(***************************************************************************)
\* a thread between two probes, n probes made; op, key, success and from tell
\* of the probe it has made last
Idle(n, o, key, success, from) ==
  [pc |-> "idle", n |-> n, op |-> o, key |-> key, i |-> 0, ptr |-> 0, ent |-> 0,
   table_entry |-> NoDtz, success |-> success, from |-> from]

Threads == 1..NumThreads
Threads0 == [t \in Threads |-> Idle(0, "none", 0, 1, 0)]

\* nothing mapped: payload[ptr] is set when init_table_wdl has mapped the WDL
\* file of ptr, inits and fails count its calls by their outcome; the DTZ
\* entries load_dtz_table allocates are numbered 1, 2, ..: owner is the table
\* of each, live the set of those not freed, refreed those freed twice; probed
\* is the sequence of the keys a single thread has probed
Mem0 == [payload |-> [ptr \in 1..NumTables |-> FALSE],
         inits   |-> [ptr \in 1..NumTables |-> 0],
         fails   |-> [ptr \in 1..NumTables |-> 0],
         owner   |-> <<>>,
         live    |-> {},
         refreed |-> {},
         probed  |-> <<>>]

\* the counters of lookups and of failed lookups restart with every call
Enter(G) == [G EXCEPT !.lookups = 0, !.dtzs = 0, !.failed = 0, !.top = 0, !.deep = 0]

Init ==
  /\ \E sc \in Scenarios :
       /\ pos = sc.pos
       /\ stack = sc.stack
       /\ fs = sc.fs
       /\ rmoves = RootMoves(sc.pos)
       /\ nmoves = Len(RootMoves(sc.pos))
       /\ entry = [rm |-> RootMoves(sc.pos), num |-> Len(RootMoves(sc.pos))]
  /\ tb = TB0
  /\ op = "none"
  /\ ret = 0
  /\ psuccess = 0
  /\ pscore = NoScore
  /\ calls = 0
  /\ thr = Threads0
  /\ mutex = 0
  /\ mem = Mem0

CallProbeWdl ==
  /\ calls < MaxCalls
  /\ \E r \in {TB_probe_wdl(pos, Enter(tb))} :
         /\ ret' = r.v
         /\ psuccess' = r.success
         /\ tb' = r.G
  /\ op' = "TB_probe_wdl"
  /\ calls' = calls + 1
  /\ UNCHANGED <<pos, stack, fs, rmoves, nmoves, pscore, entry, concvars>>

CallProbeDtz ==
  /\ calls < MaxCalls
  /\ \E r \in {TB_probe_dtz(pos, Enter(tb))} :
         /\ ret' = r.v
         /\ psuccess' = r.success
         /\ tb' = r.G
  /\ op' = "TB_probe_dtz"
  /\ calls' = calls + 1
  /\ UNCHANGED <<pos, stack, fs, rmoves, nmoves, pscore, entry, concvars>>

CallRootProbe ==
  /\ calls < MaxCalls
  /\ \E wraps \in BOOLEAN :
       \E r \in {TB_root_probe(pos, stack, rmoves, nmoves, wraps, Enter(tb))} :
         /\ ret' = r.ret
         /\ psuccess' = r.success
         /\ tb' = r.G
         /\ rmoves' = r.rm
         /\ nmoves' = r.num
         /\ pscore' = (IF r.score = NoScore THEN pscore ELSE r.score)
  /\ op' = "TB_root_probe"
  /\ calls' = calls + 1
  /\ entry' = [rm |-> rmoves, num |-> nmoves]
  /\ UNCHANGED <<pos, stack, fs, concvars>>

CallRootProbeWdl ==
  /\ calls < MaxCalls
  /\ \E r \in {TB_root_probe_wdl(pos, rmoves, nmoves, Enter(tb))} :
         /\ ret' = r.ret
         /\ psuccess' = r.success
         /\ tb' = r.G
         /\ rmoves' = r.rm
         /\ nmoves' = r.num
         /\ pscore' = (IF r.score = NoScore THEN pscore ELSE r.score)
  /\ op' = "TB_root_probe_wdl"
  /\ calls' = calls + 1
  /\ entry' = [rm |-> rmoves, num |-> nmoves]
  /\ UNCHANGED <<pos, stack, fs, concvars>>

Next == CallProbeWdl \/ CallProbeDtz \/ CallRootProbe \/ CallRootProbeWdl

Spec == Init /\ [][Next]_vars

(***************************************************************************)
(* probe_ab on its own: TB_probe_wdl calls it with the windows (-2, 3) to    *)
(* (-2, -1); here it is called with every window alpha < beta of -3..3.     *)
(***************************************************************************)
Windows == {w \in ((0 - 3)..3) \X ((0 - 3)..3) : w[1] < w[2]}

AbInit == Init /\ stack = Stack0 /\ pos.rule50 = 0

CallProbeAb ==
  /\ calls < MaxCalls
  /\ \E w \in Windows :
       /\ \E r \in {probe_ab(pos, w[1], w[2], 1, Enter(tb))} :
            /\ ret' = r.v
            /\ psuccess' = r.success
            /\ tb' = r.G
       /\ entry' = [rm |-> rmoves, num |-> nmoves, alpha |-> w[1], beta |-> w[2]]
  /\ op' = "probe_ab"
  /\ calls' = calls + 1
  /\ UNCHANGED <<pos, stack, fs, rmoves, nmoves, pscore, concvars>>

SpecAb == AbInit /\ [][CallProbeAb]_vars

(***************************************************************************)
(* has_repeated on its own.  The stack holds the states since the last     *)
(* move that reset pliesFromNull, the latest first, and may hold one state *)
(* from before it.  A key carries the side to move, so that the keys of    *)
(* states an odd number of plies apart differ; the keys of states two      *)
(* plies apart differ because the side that moved has not moved back.      *)
(***************************************************************************)
\* the positions of n successive states, as numbers
RepIds(n) == {ids \in [1..n -> 1..3] : \A i \in 1..(n - 2) : ids[i] # ids[i + 2]}

RepWindow(ids) ==
  [i \in 1..Len(ids) |-> [key |-> 2 * ids[i] + (i % 2), pliesFromNull |-> Len(ids) - i]]

RepOlder == {<<>>} \cup {<<[key |-> k, pliesFromNull |-> 3]>> : k \in 2..7}

RepStacks ==
  {RepWindow(ids) \o o : ids \in UNION {RepIds(n) : n \in 1..(MaxPlies + 1)}, o \in RepOlder}

RepInit ==
  /\ pos = Node(KvK, WHITE, 0, FALSE, <<>>)
  /\ stack \in RepStacks
  /\ rmoves = <<>>
  /\ nmoves = 0
  /\ entry = [rm |-> <<>>, num |-> 0]
  /\ op = "none"
  /\ ret = 0
  /\ psuccess = 0
  /\ pscore = NoScore
  /\ calls = 0
  /\ fs = AllFiles
  /\ tb = TB0
  /\ thr = Threads0
  /\ mutex = 0
  /\ mem = Mem0

CallHasRepeated ==
  /\ calls < MaxCalls
  /\ ret' = (IF has_repeated(stack) THEN 1 ELSE 0)
  /\ op' = "has_repeated"
  /\ calls' = calls + 1
  /\ UNCHANGED <<pos, stack, fs, tb, psuccess, rmoves, nmoves, pscore, entry, concvars>>

SpecRep == RepInit /\ [][CallHasRepeated]_vars

(***************************************************************************)
(* Threads.  Search threads call the probes at the same time; what they    *)
(* share is TB_hash, the ready flags, DTZ_table and TB_mutex.  A thread    *)
(* probes a position of material key thr[t].key that has no capture and no *)
(* pawn move and is not drawn: TB_probe_wdl is probe_wdl_table, and        *)
(* TB_probe_dtz is probe_wdl_table followed by probe_dtz_table.  A step is *)
(* a statement of tbprobe.c that reads or writes what is shared.           *)
(***************************************************************************)
\* the material keys the threads probe: a table by both its keys, and two more
ThreadKeys ==
  {TBEntry(1).key, TBEntry(1).key2, TBEntry(2).key, TBEntry(3).key}

\* the files: all there, or the WDL file of the first table missing
ThreadFiles == {AllFiles, [wdl |-> AllNames \ {TableNames[1]}, dtz |-> AllNames]}

ThreadInit ==
  /\ pos = Node(KvK, WHITE, 0, FALSE, <<>>)
  /\ stack = Stack0
  /\ rmoves = <<>>
  /\ nmoves = 0
  /\ entry = [rm |-> <<>>, num |-> 0]
  /\ op = "none"
  /\ ret = 0
  /\ psuccess = 0
  /\ pscore = NoScore
  /\ calls = 0
  /\ fs \in ThreadFiles
  /\ tb = TB0
  /\ thr = Threads0
  /\ mutex = 0
  /\ mem = Mem0

At(t, pc) == thr[t].pc = pc
Goto(t, pc) == [thr EXCEPT ![t].pc = pc]

\* the probe of t returns: *success is success, from the table decoded last
Return(t, success, from) ==
  [thr EXCEPT ![t] = Idle(thr[t].n, thr[t].op, thr[t].key, success, from)]

\* a thread calls TB_probe_wdl or TB_probe_dtz
Begin(t) ==
  /\ At(t, "idle")
  /\ thr[t].n < MaxProbes
  /\ \E o \in {"TB_probe_wdl", "TB_probe_dtz"}, key \in ThreadKeys :
       thr' = [thr EXCEPT ![t] = [Idle(thr[t].n + 1, o, key, 1, 0) EXCEPT !.pc = "w_scan"]]
  /\ UNCHANGED <<seqvars, fs, tb, mutex, mem>>

\* tbprobe.c 89-98: the scan of the bucket
WdlScan(t) ==
  /\ At(t, "w_scan")
  /\ \E i \in {HashScan(tb.TB_hash[Bucket(thr[t].key)], thr[t].key)} :
       thr' = IF i = HSHMAX THEN Return(t, 0, 0)
              ELSE [thr EXCEPT ![t].pc = "w_ready", ![t].i = i,
                               ![t].ptr = tb.TB_hash[Bucket(thr[t].key)][i].ptr]
  /\ UNCHANGED <<seqvars, fs, tb, mutex, mem>>

\* tbprobe.c 101: if (!atomic_load_explicit(&ptr->ready, memory_order_acquire))
WdlReady(t) ==
  /\ At(t, "w_ready")
  /\ thr' = Goto(t, IF tb.ready[thr[t].ptr] THEN "w_decode" ELSE "w_lock")
  /\ UNCHANGED <<seqvars, fs, tb, mutex, mem>>

\* tbprobe.c 102: LOCK(TB_mutex)
WdlLock(t) ==
  /\ At(t, "w_lock")
  /\ mutex = 0
  /\ mutex' = t
  /\ thr' = Goto(t, "w_recheck")
  /\ UNCHANGED <<seqvars, fs, tb, mem>>

\* ready stored before the table is mapped
WdlRecheck_early(t) ==
  /\ At(t, "w_recheck")
  /\ thr' = Goto(t, IF tb.ready[thr[t].ptr] THEN "w_unlock" ELSE "w_init")
  /\ tb' = [tb EXCEPT !.ready[thr[t].ptr] = TRUE]
  /\ UNCHANGED <<seqvars, fs, mutex, mem>>

\* the load made without the second look at ready
WdlRecheck_nocheck(t) ==
  /\ At(t, "w_recheck")
  /\ thr' = Goto(t, "w_init")
  /\ UNCHANGED <<seqvars, fs, tb, mutex, mem>>

\* tbprobe.c 103: if (!atomic_load_explicit(&ptr->ready, memory_order_relaxed));
\* a thread at w_init is inside init_table_wdl
WdlRecheck(t) ==
  /\ At(t, "w_recheck")
  /\ thr' = Goto(t, IF tb.ready[thr[t].ptr] THEN "w_unlock" ELSE "w_init")
  /\ UNCHANGED <<seqvars, fs, tb, mutex, mem>>

\* tbprobe.c 104-106: init_table_wdl(ptr, str) returns; str is the name of the
\* table whichever key the position has
WdlInit(t) ==
  /\ At(t, "w_init")
  /\ IF init_table_wdl(thr[t].ptr, TableNames[thr[t].ptr])
     THEN /\ mem' = [mem EXCEPT !.payload[thr[t].ptr] = TRUE, !.inits[thr[t].ptr] = @ + 1]
          /\ thr' = Goto(t, "w_store")
     ELSE /\ mem' = [mem EXCEPT !.fails[thr[t].ptr] = @ + 1]
          /\ thr' = Goto(t, "w_fail")
  /\ UNCHANGED <<seqvars, fs, tb, mutex>>

\* tbprobe.c 107-110: ptr2[i].key = 0; *success = 0; UNLOCK(TB_mutex); return 0
WdlFail(t) ==
  /\ At(t, "w_fail")
  /\ tb' = [tb EXCEPT !.TB_hash[Bucket(thr[t].key)][thr[t].i].key = 0]
  /\ mutex' = 0
  /\ thr' = Return(t, 0, 0)
  /\ UNCHANGED <<seqvars, fs, mem>>

\* tbprobe.c 112: atomic_store_explicit(&ptr->ready, 1, memory_order_release)
WdlStore(t) ==
  /\ At(t, "w_store")
  /\ tb' = [tb EXCEPT !.ready[thr[t].ptr] = TRUE]
  /\ thr' = Goto(t, "w_unlock")
  /\ UNCHANGED <<seqvars, fs, mutex, mem>>

\* tbprobe.c 114: UNLOCK(TB_mutex)
WdlUnlock(t) ==
  /\ At(t, "w_unlock")
  /\ mutex' = 0
  /\ thr' = Goto(t, "w_decode")
  /\ UNCHANGED <<seqvars, fs, tb, mem>>

\* tbprobe.c 117-168: the index and the value read from the payload of ptr;
\* TB_probe_wdl returns, TB_probe_dtz goes on to probe_dtz_table
WdlDecode(t) ==
  /\ At(t, "w_decode")
  /\ thr' = IF thr[t].op = "TB_probe_wdl" THEN Return(t, 1, thr[t].ptr)
            ELSE Goto(t, "d_front")
  /\ UNCHANGED <<seqvars, fs, tb, mutex, mem>>

\* tbprobe.c 183: is the table of the key at the front of the cache
DtzFront(t) ==
  /\ At(t, "d_front")
  /\ thr' = Goto(t, IF 0 \in DtzHit(tb, thr[t].key) THEN "d_entry" ELSE "d_search")
  /\ UNCHANGED <<seqvars, fs, tb, mutex, mem>>

\* tbprobe.c 184-187: the search of the cache; table_entry = DTZ_table[i]
DtzSearch(t) ==
  /\ At(t, "d_search")
  /\ \E hit \in {DtzHit(tb, thr[t].key) \ {0}} :
       thr' = IF hit = {} THEN Goto(t, "d_scan")
              ELSE [thr EXCEPT ![t].pc = "d_mtf", ![t].i = lsb(hit),
                               ![t].table_entry = tb.DTZ_table[lsb(hit)]]
  /\ UNCHANGED <<seqvars, fs, tb, mutex, mem>>

\* mutant: table_entry goes to the front and the entries before i stay
DtzMoveToFront_front(t) ==
  /\ At(t, "d_mtf")
  /\ tb' = [tb EXCEPT !.DTZ_table[0] = thr[t].table_entry]
  /\ thr' = Goto(t, "d_entry")
  /\ UNCHANGED <<seqvars, fs, mutex, mem>>

\* tbprobe.c 188-190: the entries before i move down, table_entry goes to the front
DtzMoveToFront(t) ==
  /\ At(t, "d_mtf")
  /\ tb' = [tb EXCEPT !.DTZ_table =
              [k \in 0..(DTZ_ENTRIES - 1) |->
                 IF k = 0 THEN thr[t].table_entry
                 ELSE IF k <= thr[t].i THEN tb.DTZ_table[k - 1] ELSE tb.DTZ_table[k]]]
  /\ thr' = Goto(t, "d_entry")
  /\ UNCHANGED <<seqvars, fs, mutex, mem>>

\* tbprobe.c 192-202: the table is not in the cache: the scan of the bucket
DtzScan(t) ==
  /\ At(t, "d_scan")
  /\ \E i \in {HashScan(tb.TB_hash[Bucket(thr[t].key)], thr[t].key)} :
       thr' = IF i = HSHMAX THEN Return(t, 0, 0)
              ELSE [thr EXCEPT ![t].pc = "d_free", ![t].i = i,
                               ![t].ptr = tb.TB_hash[Bucket(thr[t].key)][i].ptr]
  /\ UNCHANGED <<seqvars, fs, tb, mutex, mem>>

\* free_dtz_entry(e)
free_dtz_entry(m, e) ==
  IF e \in m.live THEN [m EXCEPT !.live = @ \ {e}]
  ELSE [m EXCEPT !.refreed = @ \cup {e}]

\* tbprobe.c 203-204: the last entry of the cache is freed
DtzFree(t) ==
  /\ At(t, "d_free")
  /\ mem' = IF tb.DTZ_table[DTZ_ENTRIES - 1].entry # 0
            THEN free_dtz_entry(mem, tb.DTZ_table[DTZ_ENTRIES - 1].entry)
            ELSE mem
  /\ thr' = Goto(t, "d_shift")
  /\ UNCHANGED <<seqvars, fs, tb, mutex>>

\* tbprobe.c 205-206: the entries move down
DtzShift(t) ==
  /\ At(t, "d_shift")
  /\ tb' = [tb EXCEPT !.DTZ_table = ShiftDown(tb.DTZ_table)]
  /\ thr' = Goto(t, "d_load")
  /\ UNCHANGED <<seqvars, fs, mutex, mem>>

\* tbprobe.c 207: load_dtz_table(str, key1, key2) fills DTZ_table[0]: the keys
\* of the table and, if <str>.rtbz maps, a new entry
DtzLoad(t) ==
  /\ At(t, "d_load")
  /\ IF TableNames[thr[t].ptr] \in fs.dtz
     THEN /\ mem' = [mem EXCEPT !.owner = Append(@, thr[t].ptr),
                                !.live = @ \cup {Len(mem.owner) + 1}]
          /\ tb' = [tb EXCEPT !.DTZ_table[0] =
                      [key1 |-> TBEntry(thr[t].ptr).key, key2 |-> TBEntry(thr[t].ptr).key2,
                       entry |-> Len(mem.owner) + 1]]
     ELSE /\ mem' = mem
          /\ tb' = [tb EXCEPT !.DTZ_table[0] =
                      [key1 |-> TBEntry(thr[t].ptr).key, key2 |-> TBEntry(thr[t].ptr).key2,
                       entry |-> 0]]
  /\ thr' = Goto(t, "d_entry")
  /\ UNCHANGED <<seqvars, fs, mutex>>

\* tbprobe.c 211-215: ptr = DTZ_table[0].entry
DtzEntry(t) ==
  /\ At(t, "d_entry")
  /\ thr' = IF tb.DTZ_table[0].entry = 0 THEN Return(t, 0, 0)
            ELSE [thr EXCEPT ![t].pc = "d_decode", ![t].ent = tb.DTZ_table[0].entry]
  /\ UNCHANGED <<seqvars, fs, tb, mutex, mem>>

\* tbprobe.c 217-285: the value read from the entry
DtzDecode(t) ==
  /\ At(t, "d_decode")
  /\ thr' = Return(t, 1, mem.owner[thr[t].ent])
  /\ UNCHANGED <<seqvars, fs, tb, mutex, mem>>

\* a statement of a probe under way
ProbeStep(t) ==
  \/ WdlScan(t)
  \/ WdlReady(t)
  \/ WdlLock(t)
  \/ WdlRecheck(t)
  \/ WdlInit(t)
  \/ WdlFail(t)
  \/ WdlStore(t)
  \/ WdlUnlock(t)
  \/ WdlDecode(t)
  \/ DtzFront(t)
  \/ DtzSearch(t)
  \/ DtzMoveToFront(t)
  \/ DtzScan(t)
  \/ DtzFree(t)
  \/ DtzShift(t)
  \/ DtzLoad(t)
  \/ DtzEntry(t)
  \/ DtzDecode(t)

ThreadStep(t) == Begin(t) \/ ProbeStep(t)

ThreadNext == \E t \in Threads : ThreadStep(t)

SpecThreads == ThreadInit /\ [][ThreadNext]_vars

(***************************************************************************)
(* One thread alone: the engine calls TB_probe_dtz again and again, on     *)
(* positions of a material the registry has under either key or does not   *)
(* have, with all files there, a WDL file missing or a DTZ file missing.   *)
(***************************************************************************)
\* the key of a material no table is registered for: KQQvK
AbsentKey == calc_key_from_pcs(NamePcs(<<<<6, 5, 5>>, <<6>>>>), 0)

SingleKeys == ThreadKeys \cup {AbsentKey}

SingleFiles == ThreadFiles \cup {[wdl |-> AllNames, dtz |-> AllNames \ {TableNames[2]}]}

SingleInit ==
  /\ pos = Node(KvK, WHITE, 0, FALSE, <<>>)
  /\ stack = Stack0
  /\ rmoves = <<>>
  /\ nmoves = 0
  /\ entry = [rm |-> <<>>, num |-> 0]
  /\ op = "none"
  /\ ret = 0
  /\ psuccess = 0
  /\ pscore = NoScore
  /\ calls = 0
  /\ fs \in SingleFiles
  /\ tb = TB0
  /\ thr = Threads0
  /\ mutex = 0
  /\ mem = Mem0

\* the only thread calls TB_probe_dtz
SingleBegin ==
  /\ At(1, "idle")
  /\ thr[1].n < MaxSingle
  /\ \E key \in SingleKeys :
       /\ thr' = [thr EXCEPT ![1] = [Idle(thr[1].n + 1, "TB_probe_dtz", key, 1, 0)
                                       EXCEPT !.pc = "w_scan"]]
       /\ mem' = [mem EXCEPT !.probed = Append(@, key)]
  /\ UNCHANGED <<seqvars, fs, tb, mutex>>

SingleNext == SingleBegin \/ ProbeStep(1)

SpecSingle == SingleInit /\ [][SingleNext]_vars

(***************************************************************************)
(* Reference values: what the captures of a position are worth, computed   *)
(* by plain minimax over the stored values, without windows.               *)
(***************************************************************************)
Range(s) == {s[i] : i \in DOMAIN s}
Max2(a, b) == IF a >= b THEN a ELSE b
BestOf(S) == IF S = {} THEN 0 - 3 ELSE CHOOSE x \in S : \A y \in S : y <= x

LegalCaptures(p) == {m \in Range(CaptureList(p)) : is_capture(m) /\ is_legal(m)}
LegalCapturesOf(p, ep) == {m \in LegalCaptures(p) : (m.type = "ENPASSANT") = ep}

\* the table of the material of p is installed and its file is on disk
HasTable(p) == probe_wdl_table(p, 1, TB0).success = 1
StoredValue(p) == probe_wdl_table(p, 1, TB0).v
KeyMissing(p) ==
  /\ pos_material_key(p) # 2
  /\ HashScan(TB0.TB_hash[Bucket(pos_material_key(p))], pos_material_key(p)) = HSHMAX

RECURSIVE Tabled(_), Resolved(_)
Tabled(p) == HasTable(p) /\ \A m \in LegalCaptures(p) : Tabled(do_move(p, m))
CapturesTabled(p) == \A m \in LegalCaptures(p) : Tabled(do_move(p, m))

\* the value of p with its captures resolved
Resolved(p) ==
  Max2(StoredValue(p), BestOf({0 - Resolved(do_move(p, m)) : m \in LegalCaptures(p)}))

CaptureBest(p, ep) == BestOf({0 - Resolved(do_move(p, m)) : m \in LegalCapturesOf(p, ep)})
AnyCaptureBest(p) == BestOf({0 - Resolved(do_move(p, m)) : m \in LegalCaptures(p)})

\* no legal move but en passant captures
OnlyEpLegal(p) == \A m \in Range(p.moves) : is_legal(m) => m.type = "ENPASSANT"

IsProbe == op \in {"TB_probe_wdl", "TB_probe_dtz"}

(***************************************************************************)
(* C1                                                                      *)
(***************************************************************************)
\* C1 (as amended): a lookup that fails is the last lookup of a probe: the
\* probe returns with success = 0 and every move undone, and success = 0 comes
\* from nothing else.  A position whose material key is in no slot of its bucket
\* yields success = 0, unless one of its captures resolves to a win: then the
\* probe returns the win with success = 2 and never looks the position up.
C1_FailurePropagates ==
  IsProbe =>
    /\ tb.ply = 0
    /\ tb.failed <= 1
    /\ (tb.failed = 1) <=> (psuccess = 0)
    /\ KeyMissing(pos) =>
         \/ psuccess = 0
         \/ /\ psuccess = 2
            /\ ret = (IF op = "TB_probe_wdl" THEN 2 ELSE 1)
            /\ AnyCaptureBest(pos) = 2

\* a failure two lookups deep, below a position whose own table is there
C1_Witness ==
  /\ IsProbe
  /\ psuccess = 0
  /\ tb.lookups >= 2
  /\ ~KeyMissing(pos)

\* C1 as stated: a position whose key is in no slot always yields success = 0
C1_Original == (IsProbe /\ KeyMissing(pos)) => psuccess = 0

(***************************************************************************)
(* C2                                                                      *)
(***************************************************************************)
\* what TB_probe_wdl reports with success = 2, over the best non-ep capture c,
\* the best ep capture e (-3: none) and the stored value v
Success2(c, e, v, only_ep) ==
  \/ Max2(c, e) = 2
  \/ (e > c /\ e > v)
  \/ (Max2(c, e) >= v /\ Max2(c, e) > 0)
  \/ (e > 0 - 3 /\ Max2(c, e) < v /\ v = 0 /\ only_ep)

\* C2 as stated: success = 2 iff the best capture is strictly better than the
\* stored value (and, if it is ep, than every other capture)
StrictlyBest(c, e, v) == (c > v /\ c >= e) \/ (e > v /\ e > c)

\* C2 (as amended): a successful TB_probe_wdl sets success = 2 iff a capture
\* wins, or the best capture is a cursed win and the stored value is no better,
\* or an ep capture is strictly better than the stored value and every other
\* capture, or the position is stalemate but for its ep captures; otherwise 1.
C2_SuccessTwo ==
  (op = "TB_probe_wdl" /\ psuccess # 0 /\ Tabled(pos)) =>
    ((psuccess = 2) <=> Success2(CaptureBest(pos, FALSE), CaptureBest(pos, TRUE),
                                 StoredValue(pos), OnlyEpLegal(pos)))

\* success = 2 with a capture that only equals the stored value
C2_Witness ==
  /\ op = "TB_probe_wdl"
  /\ psuccess = 2
  /\ Tabled(pos)
  /\ ret = 1
  /\ StoredValue(pos) = 1

C2_Original ==
  (op = "TB_probe_wdl" /\ psuccess # 0 /\ Tabled(pos)) =>
    ((psuccess = 2) <=> StrictlyBest(CaptureBest(pos, FALSE), CaptureBest(pos, TRUE),
                                     StoredValue(pos)))

(***************************************************************************)
(* C3                                                                      *)
(***************************************************************************)
\* C3: whenever TB_probe_wdl returns success = 2, the value returned is the
\* greatest resolved value of the legal captures of the position.
C3_BestCapture ==
  (op = "TB_probe_wdl" /\ psuccess = 2 /\ CapturesTabled(pos)) =>
    ret = AnyCaptureBest(pos)

\* a cursed win by capture, found among two captures that have replies
C3_Witness ==
  /\ op = "TB_probe_wdl"
  /\ psuccess = 2
  /\ ret = 1
  /\ CapturesTabled(pos)
  /\ Cardinality(LegalCaptures(pos)) >= 2
  /\ \A m \in LegalCaptures(pos) : LegalCaptures(m.to) # {}

(***************************************************************************)
(* C4                                                                      *)
(***************************************************************************)
\* C4: whenever TB_probe_wdl returns success # 0, the value is in -2..2 and
\* success is 1 or 2.
C4_ValueRange ==
  (op = "TB_probe_wdl" /\ psuccess # 0) => (ret \in (0 - 2)..2 /\ psuccess \in {1, 2})

\* a loss returned for a position with no legal capture: best_cap is still -3
C4_Witness ==
  /\ op = "TB_probe_wdl"
  /\ psuccess = 1
  /\ ret = 0 - 2
  /\ LegalCaptures(pos) = {}
  /\ CaptureList(pos) # <<>>

(***************************************************************************)
(* C5                                                                      *)
(***************************************************************************)
StalemateButEp(p) ==
  /\ ~pos_checkers(p)
  /\ OnlyEpLegal(p)
  /\ LegalCapturesOf(p, TRUE) # {}

\* C5: not in check, no legal move but ep captures, stored value 0:
\* TB_probe_wdl returns the value of the best ep capture.
C5_StalemateEp ==
  (op = "TB_probe_wdl" /\ psuccess # 0 /\ StalemateButEp(pos) /\ StoredValue(pos) = 0) =>
    ret = CaptureBest(pos, TRUE)

\* the ep capture loses and is returned all the same
C5_Witness ==
  /\ op = "TB_probe_wdl"
  /\ psuccess = 2
  /\ StalemateButEp(pos)
  /\ StoredValue(pos) = 0
  /\ ret = 0 - 2

(***************************************************************************)
(* C6                                                                      *)
(***************************************************************************)
\* mirror_colors: every piece changes colour and its square flips vertically
\* (sq ^ 0x38), the other side is to move; the moves follow
RECURSIVE mirror_colors(_)
MirrorMove(m) ==
  [m EXCEPT !.to = mirror_colors(m.to),
            !.under = [k \in DOMAIN m.under |-> mirror_colors(m.under[k])]]

mirror_colors(p) ==
  [bb |-> [pc \in PieceCodes |-> {Xor38(s) : s \in p.bb[XorColor(pc, 8)]}],
   materialKey |-> calc_key(p, 1),
   stm |-> 1 - p.stm,
   checkers |-> p.checkers,
   rule50 |-> p.rule50,
   moves |-> [k \in DOMAIN p.moves |-> MirrorMove(p.moves[k])]]

SameAs(r) == ret = r.v /\ psuccess = r.success
NegationOf(r) == ret = 0 - r.v

\* C6 (as amended): the probes give the value for the side to move, so the
\* colour-mirrored position, with the other side to move, gets the same WDL
\* value, the same DTZ value and the same success as the position itself.
C6_MirrorSame ==
  /\ op = "TB_probe_wdl" => \E r \in {TB_probe_wdl(mirror_colors(pos), TB0)} : SameAs(r)
  /\ op = "TB_probe_dtz" => \E r \in {TB_probe_dtz(mirror_colors(pos), TB0)} : SameAs(r)

\* a decided position with pawns whose material is not symmetric: the mirrored
\* position reaches the table through the other key
C6_Witness ==
  /\ IsProbe
  /\ psuccess = 1
  /\ ret # 0
  /\ pos_material_key(pos) # calc_key(pos, 1)
  /\ pieces_cp(pos, WHITE, PAWN) \cup pieces_cp(pos, BLACK, PAWN) # {}
  /\ pos_stm(pos) = BLACK

\* C6 as the specification states it: the mirrored position gets the negated
\* value
C6_Original ==
  /\ op = "TB_probe_wdl" => \E r \in {TB_probe_wdl(mirror_colors(pos), TB0)} : NegationOf(r)
  /\ op = "TB_probe_dtz" => \E r \in {TB_probe_dtz(mirror_colors(pos), TB0)} : NegationOf(r)

(***************************************************************************)
(* C7                                                                      *)
(***************************************************************************)
Sign(x) == IF x > 0 THEN 1 ELSE IF x < 0 THEN 0 - 1 ELSE 0

\* the DTZ table of p stores the other side to move
WrongSide(p) == probe_dtz_table(p, 1, 1, TB0).success = 0 - 1

\* C7: whenever TB_probe_dtz returns success # 0, the sign of its value is the
\* sign of the value TB_probe_wdl returns for the position.
C7_DtzSign ==
  (op = "TB_probe_dtz" /\ psuccess # 0) =>
    \E w \in {TB_probe_wdl(pos, TB0)} : Sign(ret) = Sign(w.v)

\* a loss found by the recursion over the quiet piece moves, the table storing
\* the other side to move
C7_Witness ==
  /\ op = "TB_probe_dtz"
  /\ psuccess = 1
  /\ ret < 0 - 1
  /\ WrongSide(pos)
  /\ LegalCaptures(pos) = {}
  /\ \E m \in Range(AllMoves(pos)) : IsPieceQuiet(m)

(***************************************************************************)
(* C8                                                                      *)
(***************************************************************************)
IsRoot == op \in {"TB_root_probe", "TB_root_probe_wdl"}

\* rm[0..n-1].move
MovesOf(list, n) == [i \in 1..n |-> list[i].move]

\* C8: if a probe fails during TB_root_probe or TB_root_probe_wdl, the function
\* returns 0, and when it returns 0 *num_moves and the moves rm[i].move are as
\* they were on entry.
C8_FailureKeepsMoves ==
  IsRoot =>
    /\ tb.failed > 0 => ret = 0
    /\ ret = 0 =>
         /\ nmoves = entry.num
         /\ MovesOf(rmoves, nmoves) = MovesOf(entry.rm, entry.num)

\* the probe of a later child fails after an earlier child has got its value
C8_Witness ==
  /\ IsRoot
  /\ ret = 0
  /\ tb.failed > 0
  /\ nmoves >= 2
  /\ \E i \in 1..nmoves : rmoves[i].value # 0

(***************************************************************************)
(* C9, C10                                                                 *)
(***************************************************************************)
\* the moves the filter has kept, and the value the loop gave a move
KeptMoves == {rmoves[j].move : j \in 1..nmoves}
EntryMoves == {entry.rm[i].move : i \in 1..entry.num}
ValueOf(m) == rmoves[CHOOSE i \in 1..entry.num : entry.rm[i].move = m].value
ChildValues == {rmoves[i].value : i \in 1..entry.num}
LeastOf(S) == CHOOSE x \in S : \A y \in S : x <= y
RootCnt50 == pos_rule50_count(pos)

\* TB_root_probe has filtered the moves of a root whose DTZ is d
Filters(d) == op = "TB_root_probe" /\ ret = 1 /\ d.success # 0

\* C9 (as amended): every move TB_root_probe keeps at a winning root has a
\* positive value v, and v + RootCnt50 <= 99 unless v is the smallest positive
\* value of all the moves: the fastest wins are kept even when they cross the
\* 50-move boundary.
C9_KeptWithinBudget ==
  \E d \in {TB_probe_dtz(pos, TB0)} :
    (Filters(d) /\ d.v > 0) =>
      \A m \in KeptMoves :
        /\ ValueOf(m) > 0
        /\ \/ ValueOf(m) + RootCnt50 <= 99
           \/ ValueOf(m) = LeastOf({v \in ChildValues : v > 0})

\* close to the draw, a win within the budget is kept and a slower win dropped
C9_Witness ==
  \E d \in {TB_probe_dtz(pos, TB0)} :
    /\ Filters(d)
    /\ d.v > 0
    /\ RootCnt50 > 0
    /\ nmoves >= 1
    /\ \E m \in EntryMoves \ KeptMoves : ValueOf(m) > 0

\* C9 as the specification states it: every kept move has v + RootCnt50 <= 99
C9_Original ==
  \E d \in {TB_probe_dtz(pos, TB0)} :
    (Filters(d) /\ d.v > 0) => \A m \in KeptMoves : ValueOf(m) + RootCnt50 <= 99

\* -best * 2 + cnt50 < 100, for cnt50 >= 0
NotClose(best) == best > 0 - 50 /\ (0 - best) * 2 + RootCnt50 < 100

\* C10 as the specification states it: at a losing root with best the value of
\* the most-delaying child, all moves are kept if -best * 2 + RootCnt50 < 100, and
\* otherwise exactly the moves of value best, at least one.
C10_Original ==
  \E d \in {TB_probe_dtz(pos, TB0)} :
    (Filters(d) /\ d.v < 0 /\ entry.num >= 1) =>
      IF NotClose(LeastOf(ChildValues))
      THEN KeptMoves = EntryMoves
      ELSE /\ KeptMoves = {m \in EntryMoves : ValueOf(m) = LeastOf(ChildValues)}
           /\ nmoves >= 1

(***************************************************************************)
(* C11, C12                                                                *)
(***************************************************************************)
\* the root moves on entry, each with the value the loop has given it
Valued == [i \in 1..entry.num |-> [move |-> entry.rm[i].move, value |-> rmoves[i].value]]

\* the moves on entry whose value is in S, in their order
MovesWhere(S) ==
  LET sel == SelectSeq(Valued, LAMBDA e : e.value \in S)
  IN  [i \in DOMAIN sel |-> sel[i].move]

LeftMoves == MovesOf(rmoves, nmoves)

\* the smallest positive child value (0xffff if there is none) and the bound
\* the claim gives for the values kept
SmallestPositive ==
  IF {v \in ChildValues : v > 0} = {} THEN 65535 ELSE LeastOf({v \in ChildValues : v > 0})
MaxAllowed ==
  IF ~has_repeated(stack) /\ SmallestPositive + RootCnt50 <= 99 THEN 99 - RootCnt50
  ELSE SmallestPositive

\* C11: at a winning root TB_root_probe leaves exactly the moves with
\* 0 < v <= max_dtz_allowed, in their original order, max_dtz_allowed being
\* the smallest positive value, relaxed to 99 - cnt50 exactly when there was no
\* repetition and best + cnt50 <= 99.
C11_WinningKept ==
  \E d \in {TB_probe_dtz(pos, TB0)} :
    (Filters(d) /\ d.v > 0) =>
      /\ LeftMoves = MovesWhere(1..MaxAllowed)
      /\ nmoves = Len(MovesWhere(1..MaxAllowed))

\* after a repetition a slower win is dropped though it is within the budget
C11_Witness ==
  \E d \in {TB_probe_dtz(pos, TB0)} :
    /\ Filters(d)
    /\ d.v > 0
    /\ has_repeated(stack)
    /\ nmoves >= 1
    /\ \E m \in EntryMoves \ KeptMoves : ValueOf(m) > 0 /\ ValueOf(m) + RootCnt50 <= 99

\* C12: at a drawing root TB_root_probe keeps exactly the moves of value 0, in
\* their original order, and *num_moves is their number.
C12_DrawingKept ==
  \E d \in {TB_probe_dtz(pos, TB0)} :
    (Filters(d) /\ d.v = 0) =>
      /\ LeftMoves = MovesWhere({0})
      /\ nmoves = Len(MovesWhere({0}))

\* a drawing move is kept and a move of another value dropped
C12_Witness ==
  \E d \in {TB_probe_dtz(pos, TB0)} :
    /\ Filters(d)
    /\ d.v = 0
    /\ nmoves >= 1
    /\ nmoves < entry.num

(***************************************************************************)
(* C13                                                                     *)
(***************************************************************************)
\* the negated WDL value of the child of the i-th root move on entry
ChildWdl(i) == 0 - TB_probe_wdl(do_move(pos, pos.moves[entry.rm[i].move]), TB0).v
BestChildWdl == BestOf({ChildWdl(i) : i \in 1..entry.num})
BestWdlMoves ==
  LET sel == SelectSeq([i \in 1..entry.num |-> i], LAMBDA i : ChildWdl(i) = BestChildWdl)
  IN  [k \in DOMAIN sel |-> entry.rm[sel[k]].move]

\* C13: when TB_root_probe_wdl returns 1 the list left is exactly the moves, in
\* their original order, whose negated child WDL is the greatest of all root
\* moves; it is not empty unless the list was empty on entry.
C13_WdlKept ==
  (op = "TB_root_probe_wdl" /\ ret = 1) =>
    /\ LeftMoves = BestWdlMoves
    /\ nmoves = Len(BestWdlMoves)
    /\ entry.num >= 1 => nmoves >= 1

\* a move is dropped for a better one
C13_Witness ==
  /\ op = "TB_root_probe_wdl"
  /\ ret = 1
  /\ nmoves >= 1
  /\ nmoves < entry.num

(***************************************************************************)
(* C15                                                                     *)
(***************************************************************************)
\* C15: a probe of a position of the bare kings returns 0, with success = 1,
\* and makes no lookup in the registry and no search of the DTZ cache.
C15_BareKings ==
  (IsProbe /\ pos_material_key(pos) = 2) =>
    /\ ret = 0
    /\ psuccess = 1
    /\ tb.lookups = 0
    /\ tb.dtzs = 0
    /\ tb.failed = 0

\* TB_probe_dtz of bare kings with a king move to make
C15_Witness ==
  /\ op = "TB_probe_dtz"
  /\ pos_material_key(pos) = 2
  /\ pos.moves # <<>>
  /\ ret = 0
  /\ psuccess = 1

(***************************************************************************)
(* Threads: the lazy load of the WDL tables.                               *)
(***************************************************************************)
Tables == 1..NumTables

\* the threads inside init_table_wdl for ptr
Loading(ptr) == {t \in Threads : At(t, "w_init") /\ thr[t].ptr = ptr}

\* C16: a thread is at the index and decompress step of probe_wdl_table for an
\* entry only if init_table_wdl has mapped that entry before.
C16_DecodeAfterLoad ==
  \A t \in Threads : At(t, "w_decode") => mem.payload[thr[t].ptr]

\* a thread that saw ready false waits for the mutex while the entry it waits
\* for has been loaded and another thread reads from it
C16_Witness ==
  \E t, u \in Threads :
    /\ At(t, "w_decode")
    /\ At(u, "w_recheck")
    /\ thr[u].ptr = thr[t].ptr
    /\ mem.inits[thr[t].ptr] = 1

\* C17: for every WDL entry init_table_wdl succeeds at most once, no two
\* threads are inside init_table_wdl at the same time, and ready never goes
\* from true to false.
C17_LoadOnce ==
  /\ [](\A ptr \in Tables : mem.inits[ptr] <= 1 /\ Cardinality(Loading(ptr)) <= 1)
  /\ [][\A ptr \in Tables : tb.ready[ptr] => tb'.ready[ptr]]_vars

\* a thread has locked the mutex for an entry another thread has loaded
C17_Witness ==
  \E t \in Threads :
    /\ At(t, "w_recheck")
    /\ tb.ready[thr[t].ptr]
    /\ mem.inits[thr[t].ptr] = 1

\* C20: once init_table_wdl has failed for an entry, no probe calls it for
\* that entry again, through whichever key of the entry.
C20_Original ==
  \A ptr \in Tables : mem.fails[ptr] <= 1

(***************************************************************************)
(* Threads: the cache of DTZ tables.                                       *)
(***************************************************************************)
\* t is between two writes of probe_dtz_table to DTZ_table: table_entry
\* copied and not yet put in front, the last entry freed and the others not
\* yet moved, the others moved and the new table not yet loaded
InLru(t) == thr[t].pc \in {"d_mtf", "d_shift", "d_load"}

\* the keys of the table that owns the DTZ entry e
KeysOf(e) == {TBEntry(mem.owner[e]).key, TBEntry(mem.owner[e]).key2}

\* C14: the DTZ entry a probe decodes from belongs to the material key of the
\* position probed, and a probe that found its table returns the value of
\* that table.
C14_Original ==
  \A t \in Threads :
    /\ At(t, "d_decode") => thr[t].key \in KeysOf(thr[t].ent)
    /\ (At(t, "idle") /\ thr[t].from # 0) =>
         thr[t].key \in {TBEntry(thr[t].from).key, TBEntry(thr[t].from).key2}

\* C18: a thread changes DTZ_table only while it holds TB_mutex, and no two
\* threads change it at the same time.
C18_Original ==
  /\ \A t \in Threads : InLru(t) => mutex = t
  /\ Cardinality({t \in Threads : InLru(t)}) <= 1

\* C19: the DTZ entry a probe decodes from has not been freed, and no DTZ
\* entry is freed twice.
C19_Original ==
  /\ \A t \in Threads : At(t, "d_decode") => thr[t].ent \in mem.live
  /\ mem.refreed = {}

(***************************************************************************)
(* Threads: the registry.                                                  *)
(***************************************************************************)
\* t is about to compare the keys of the slots of bucket b with its key
Scanning(t, b) == thr[t].pc \in {"w_scan", "d_scan"} /\ Bucket(thr[t].key) = b

\* C21: no probe writes to a slot of TB_hash, and no bucket scan runs while
\* another thread is about to write to a slot of the bucket scanned.
C21_Original ==
  /\ tb.TB_hash = TB0.TB_hash
  /\ \A t, u \in Threads :
       (t # u /\ At(t, "w_fail")) => ~Scanning(u, Bucket(thr[t].key))

(***************************************************************************)
(* C22                                                                     *)
(***************************************************************************)
\* C22: when an entry point returns, every move it or the functions it calls
\* have done has been undone: the position is at the depth it had on entry,
\* whether the call failed, cut off, took the success = 2 shortcut or ran to
\* its end.
C22_Balanced == op # "none" => tb.ply = 0

\* a root filter returns 0 because the probe of a capture below a root move
\* failed
C22_Witness ==
  /\ IsRoot
  /\ ret = 0
  /\ tb.failed > 0
  /\ tb.lookups >= 3

(***************************************************************************)
(* C23: one thread, the cache of DTZ tables against a list kept by         *)
(* recency.                                                                *)
(***************************************************************************)
\* the tables registered under key
TablesOf(key) == {ptr \in Tables : key \in {TBEntry(ptr).key, TBEntry(ptr).key2}}

\* TB_probe_dtz gets as far as probe_dtz_table: the material is registered and
\* its WDL table loads
ReachesDtz(key) ==
  \E ptr \in TablesOf(key) : TableNames[ptr] \in fs.wdl

Without(s, x) == SelectSeq(s, LAMBDA y : y # x)
FirstN(s, n) == SubSeq(s, 1, IF Len(s) < n THEN Len(s) ELSE n)

\* the DTZ_ENTRIES tables probed last, the latest first, after the probes of
\* the keys h
RECURSIVE Recency(_)
Recency(h) ==
  IF h = <<>> THEN <<>>
  ELSE IF ~ReachesDtz(h[Len(h)]) THEN Recency(SubSeq(h, 1, Len(h) - 1))
  ELSE FirstN(<<CHOOSE ptr \in TablesOf(h[Len(h)]) : TRUE>>
                \o Without(Recency(SubSeq(h, 1, Len(h) - 1)),
                           CHOOSE ptr \in TablesOf(h[Len(h)]) : TRUE),
              DTZ_ENTRIES)

\* slot k of DTZ_table holds the table ptr: its keys, and its entry if its
\* DTZ file is there
SlotHolds(k, ptr) ==
  /\ tb.DTZ_table[k].key1 = TBEntry(ptr).key
  /\ tb.DTZ_table[k].key2 = TBEntry(ptr).key2
  /\ IF TableNames[ptr] \in fs.dtz
     THEN /\ tb.DTZ_table[k].entry \in mem.live
          /\ mem.owner[tb.DTZ_table[k].entry] = ptr
     ELSE tb.DTZ_table[k].entry = 0

\* the entries the cache holds
Resident == {tb.DTZ_table[k].entry : k \in 0..(DTZ_ENTRIES - 1)} \ {0}

PawnMoveWinsAt(p, wdl, G, k) ==
  /\ IsPawnPush(AllMoves(p)[k])
  /\ TB_probe_wdl(do_move(p, AllMoves(p)[k]), G).success # 0
  /\ 0 - TB_probe_wdl(do_move(p, AllMoves(p)[k]), G).v = wdl

PawnMoveFailsAt(p, G, k) ==
  /\ IsPawnPush(AllMoves(p)[k])
  /\ TB_probe_wdl(do_move(p, AllMoves(p)[k]), G).success = 0

PawnMoveWins(p, wdl, G) ==
  \E k \in DOMAIN AllMoves(p) : PawnMoveWinsAt(p, wdl, G, k)

\* such a move comes before every pawn move whose probe fails
PawnMoveWinsFirst(p, wdl, G) ==
  \E k \in DOMAIN AllMoves(p) :
    /\ PawnMoveWinsAt(p, wdl, G, k)
    /\ \A j \in 1..(k - 1) : ~PawnMoveFailsAt(p, G, j)

\* what C24 says of a call of TB_probe_dtz that finds the tables G, returns v
\* and leaves the tables H; w is what TB_probe_wdl returns for the position,
\* pawn whether a pawn move makes the shortcut
DtzShortcuts(p, w, G, v, H, pawn) ==
  /\ H.dtzs > 0 =>
       /\ w.success = 1
       /\ w.v # 0
       /\ w.v > 0 => ~PawnMoveWins(p, w.v, G)
  /\ (w.success # 0 /\ w.v = 0) => (v = 0 /\ H.DTZ_table = G.DTZ_table)
  /\ (w.success = 2 /\ w.v # 0) => (v = wdl_to_dtz(w.v) /\ H.DTZ_table = G.DTZ_table)
  /\ (w.success = 1 /\ w.v > 0 /\ pawn) =>
       (v = wdl_to_dtz(w.v) /\ H.DTZ_table = G.DTZ_table)

\* C24 (as amended): TB_probe_dtz searches the DTZ cache only if the WDL probe
\* succeeded with a value other than 0 and success other than 2 and, for a
\* win, no legal pawn move that is no capture leads to a position of value
\* -wdl; for a draw it returns 0, for success = 2 wdl_to_dtz[wdl + 2], and for
\* a win by a pawn move wdl_to_dtz[wdl + 2] if no pawn move generated before
\* it leads to a position whose probe fails; the cache is as it was.
C24_Shortcuts ==
  [][op' = "TB_probe_dtz" =>
       DtzShortcuts(pos, TB_probe_wdl(pos, Enter(tb)), Enter(tb), ret', tb',
                    PawnMoveWinsFirst(pos, TB_probe_wdl(pos, Enter(tb)).v, Enter(tb)))]_vars

\* C24 as stated: wdl_to_dtz[wdl + 2] is returned whenever some pawn move
\* leads to a position of value -wdl
C24_Original ==
  [][op' = "TB_probe_dtz" =>
       DtzShortcuts(pos, TB_probe_wdl(pos, Enter(tb)), Enter(tb), ret', tb',
                    PawnMoveWins(pos, TB_probe_wdl(pos, Enter(tb)).v, Enter(tb)))]_vars

\* a win by a pawn move: 1 or 101 returned and the cache not searched
C24_Witness ==
  /\ op = "TB_probe_dtz"
  /\ TB_probe_wdl(pos, TB0).success = 1
  /\ TB_probe_wdl(pos, TB0).v > 0
  /\ PawnMoveWinsFirst(pos, TB_probe_wdl(pos, TB0).v, TB0)
  /\ ret = wdl_to_dtz(TB_probe_wdl(pos, TB0).v)
  /\ tb.dtzs = 0

(***************************************************************************)
(* C25                                                                     *)
(***************************************************************************)
\* C25: when TB_probe_dtz returns, success is 0, 1 or 2, also for a position
\* that has no legal move.
C25_Original == op = "TB_probe_dtz" => psuccess \in {0, 1, 2}

(***************************************************************************)
(* C26: probe_ab against the plain negamax Resolved.                       *)
(***************************************************************************)
\* the positions of the capture tree of p, each as often as the captures
\* lead to it
RECURSIVE TreeSize(_)
TreeSize(p) ==
  1 + SumSeq([k \in DOMAIN CaptureList(p) |->
                IF is_capture(CaptureList(p)[k]) /\ is_legal(CaptureList(p)[k])
                THEN TreeSize(do_move(p, CaptureList(p)[k])) ELSE 0])

\* a capture is worth beta or more
CutsOff(p, beta) == CapturesTabled(p) /\ AnyCaptureBest(p) >= beta

\* C26: with all tables of the capture tree there, the value r of probe_ab
\* for the window (alpha, beta) is the negamax value if alpha < r < beta, a
\* lower bound of it if r >= beta, and alpha with the negamax value at most
\* alpha otherwise; when a capture is worth beta or more, probe_ab returns
\* without a lookup for the position itself, whether its table is there or
\* not.
C26_AlphaBeta ==
  op = "probe_ab" =>
    /\ Tabled(pos) =>
         /\ psuccess # 0
         /\ (entry.alpha < ret /\ ret < entry.beta) => ret = Resolved(pos)
         /\ ret >= entry.beta => Resolved(pos) >= ret
         /\ ret <= entry.alpha => (ret = entry.alpha /\ Resolved(pos) <= entry.alpha)
    /\ CutsOff(pos, entry.beta) =>
         /\ psuccess # 0
         /\ ret >= entry.beta
         /\ tb.lookups < TreeSize(pos)

\* a cutoff by the second capture two plies down, inside the window of the root
C26_Witness ==
  /\ op = "probe_ab"
  /\ Tabled(pos)
  /\ entry.alpha < ret
  /\ ret < entry.beta
  /\ ret > StoredValue(pos)
  /\ tb.lookups >= 3
  /\ tb.lookups + 1 < TreeSize(pos)

(***************************************************************************)
(* C27                                                                     *)
(***************************************************************************)
\* the pieces on the board
PieceCount(p) == SumSeq([k \in 1..14 |-> IF k \in PieceCodes THEN popcount(p.bb[k]) ELSE 0])

\* C27: a call of TB_probe_dtz returns; the calls of TB_probe_dtz it makes for
\* the other side to move never make such a call themselves, and the moves
\* done and not undone are never more than the pieces on the board.
C27_Bounded ==
  op = "TB_probe_dtz" =>
    /\ tb.deep <= 1
    /\ tb.nest = 0
    /\ tb.top <= PieceCount(pos)

\* the table stores the other side, and the position after a piece move, which
\* has a piece move of its own, is read from the table
C27_Witness ==
  /\ op = "TB_probe_dtz"
  /\ psuccess = 1
  /\ tb.deep = 1
  /\ tb.dtzs >= 2
  /\ WrongSide(pos)
  /\ \E m \in Range(AllMoves(pos)) :
       IsPieceQuiet(m) /\ \E n \in Range(AllMoves(do_move(pos, m))) : IsPieceQuiet(n)

(***************************************************************************)
(* C28                                                                     *)
(***************************************************************************)
\* the states within the last pliesFromNull plies: st, st-1, .., st-e
InWindow(stk) == 1..(stk[1].pliesFromNull + 1)

\* a key is the key of two of them
KeyRepeats(stk) ==
  \E a, b \in InWindow(stk) : a < b /\ stk[a].key = stk[b].key

\* C28: has_repeated returns 1 if some key is the key of two of the states
\* within the last pliesFromNull plies, and 0 if not.
C28_Repeated ==
  op = "has_repeated" => ((ret = 1) <=> KeyRepeats(stack))

\* a state before st repeats an earlier one and st repeats none
C28_Witness ==
  /\ op = "has_repeated"
  /\ ret = 1
  /\ \A b \in InWindow(stack) \ {1} : stack[b].key # stack[1].key

====
